---- MODULE Spec2Model ----
(***************************************************************************)
(* KidShell: the input-classification and session-state engine.            *)
(*                                                                         *)
(* Input text is a sequence of one-character strings, so that the regular  *)
(* expressions, str()/int() conversions and string tests of the handlers   *)
(* are computed, not assumed.  The handlers are translated from            *)
(* src/src/kidshell/core/handlers; the dispatcher, the quiz generator, the *)
(* answer check and the achievement tracker follow the documented contract *)
(* of kidshell.core.engine and kidshell.core.services and their tests.     *)
(***************************************************************************)
EXTENDS Integers, Sequences, FiniteSets, TLC

(***************************************************************************)
(* Bounds of the exploration.                                              *)
(***************************************************************************)
MaxInputs == 3

(***************************************************************************)
(* Characters and Python string primitives.                                *)
(***************************************************************************)
AsciiDigits == {"0", "1", "2", "3", "4", "5", "6", "7", "8", "9"}

\* Characters for which str.isdigit() is true although int() rejects them
\* and the regular expression class \d does not match them (superscripts).
SuperscriptDigits == {"^2"}

LowerAlphabet ==
    <<"a", "b", "c", "d", "e", "f", "g", "h", "i", "j", "k", "l", "m",
      "n", "o", "p", "q", "r", "s", "t", "u", "v", "w", "x", "y", "z">>

UpperAlphabet ==
    <<"A", "B", "C", "D", "E", "F", "G", "H", "I", "J", "K", "L", "M",
      "N", "O", "P", "Q", "R", "S", "T", "U", "V", "W", "X", "Y", "Z">>

Letters ==
    {LowerAlphabet[i] : i \in 1..26} \cup {UpperAlphabet[i] : i \in 1..26}

LowerChar(c) ==
    IF \E i \in 1..26 : UpperAlphabet[i] = c
      THEN LowerAlphabet[CHOOSE i \in 1..26 : UpperAlphabet[i] = c]
      ELSE c

\* str.lower()
Lower(s) == [i \in 1..Len(s) |-> LowerChar(s[i])]

MathOperators == {"+", "-", "*", "/"}

DigitValue(c) ==
    CASE c = "0" -> 0 [] c = "1" -> 1 [] c = "2" -> 2 [] c = "3" -> 3
      [] c = "4" -> 4 [] c = "5" -> 5 [] c = "6" -> 6 [] c = "7" -> 7
      [] c = "8" -> 8 [] c = "9" -> 9

DigitChar(d) ==
    CASE d = 0 -> "0" [] d = 1 -> "1" [] d = 2 -> "2" [] d = 3 -> "3"
      [] d = 4 -> "4" [] d = 5 -> "5" [] d = 6 -> "6" [] d = 7 -> "7"
      [] d = 8 -> "8" [] d = 9 -> "9"

\* s[from..to] as a sequence (empty when from > to)
Slice(s, from, to) == [i \in 1..(to - from + 1) |-> s[from + i - 1]]

DropFirst(s, n) == Slice(s, n + 1, Len(s))

AllIn(s, chars) == \A i \in 1..Len(s) : s[i] \in chars

\* str.isdigit(): non-empty and every character is a digit character
IsDigit(s) == Len(s) > 0 /\ AllIn(s, AsciiDigits \cup SuperscriptDigits)

\* str.isalpha()
IsAlpha(s) == Len(s) > 0 /\ AllIn(s, Letters)

\* str.startswith(prefix)
StartsWith(s, prefix) ==
    Len(s) >= Len(prefix) /\ Slice(s, 1, Len(prefix)) = prefix

\* sub in s
Contains(s, sub) ==
    \E i \in 1..(Len(s) - Len(sub) + 1) : Slice(s, i, i + Len(sub) - 1) = sub

LStripIndex(s) ==
    IF \A i \in 1..Len(s) : s[i] = " " THEN Len(s) + 1
    ELSE CHOOSE i \in 1..Len(s) : s[i] # " " /\ \A j \in 1..(i - 1) : s[j] = " "

RStripIndex(s) ==
    IF \A i \in 1..Len(s) : s[i] = " " THEN 0
    ELSE CHOOSE i \in 1..Len(s) : s[i] # " " /\ \A j \in (i + 1)..Len(s) : s[j] = " "

\* str.strip()
Strip(s) == Slice(s, LStripIndex(s), RStripIndex(s))

RECURSIVE DigitsToNat(_)
DigitsToNat(s) ==
    IF Len(s) = 0 THEN 0
    ELSE 10 * DigitsToNat(Slice(s, 1, Len(s) - 1)) + DigitValue(s[Len(s)])

\* int(text) succeeds on an optionally signed run of decimal digits
IntParses(s) ==
    LET body == IF Len(s) > 0 /\ s[1] \in {"+", "-"} THEN Tail(s) ELSE s
    IN  Len(body) > 0 /\ AllIn(body, AsciiDigits)

IntOf(s) ==
    IF s[1] = "-" THEN 0 - DigitsToNat(Tail(s))
    ELSE IF s[1] = "+" THEN DigitsToNat(Tail(s))
    ELSE DigitsToNat(s)

RECURSIVE NatToStr(_)
NatToStr(n) ==
    IF n < 10 THEN <<DigitChar(n)>>
    ELSE Append(NatToStr(n \div 10), DigitChar(n % 10))

\* str(n) for an int
StrOfInt(n) == IF n < 0 THEN <<"-">> \o NatToStr(0 - n) ELSE NatToStr(n)

(***************************************************************************)
(* SafeMathEvaluator (core/safe_math.py): the pre-checks of evaluate, the   *)
(* checks on the size of its result, and the expressions the restricted    *)
(* interpreter is given here: integer and string literals, names, unary +  *)
(* and -, binary + - * **, and / with the quotient held as an int, with    *)
(* the usual precedence.                                                   *)
(***************************************************************************)
RECURSIVE Join(_)
\* the text of a character sequence, as a name
Join(s) == IF Len(s) = 0 THEN "" ELSE s[1] \o Join(Tail(s))

\* length of the longest prefix of s made of characters in chars
RECURSIVE RunLength(_, _)
RunLength(s, chars) ==
    IF Len(s) = 0 \/ s[1] \notin chars THEN 0
    ELSE 1 + RunLength(Tail(s), chars)

Token(t, v, name) == [t |-> t, v |-> v, name |-> name]

\* a number or string literal, with its digits or its characters
TextToken(t, chars) == [t |-> t, v |-> 0, name |-> "", chars |-> chars]

\* the position of the first quote in s after the first character, or 0
ClosingQuote(s) ==
    IF \E i \in 2..Len(s) : s[i] = "'"
      THEN CHOOSE i \in 2..Len(s) : s[i] = "'" /\ \A j \in 2..(i - 1) : s[j] # "'"
      ELSE 0

RECURSIVE Tokenize(_)
Tokenize(s) ==
    IF Len(s) = 0 THEN <<>>
    ELSE IF s[1] = " " THEN Tokenize(Tail(s))
    ELSE IF s[1] \in AsciiDigits
      THEN <<TextToken("num", Slice(s, 1, RunLength(s, AsciiDigits)))>>
             \o Tokenize(DropFirst(s, RunLength(s, AsciiDigits)))
    ELSE IF s[1] = "'" /\ ClosingQuote(s) > 0
      THEN <<TextToken("str", Slice(s, 2, ClosingQuote(s) - 1))>>
             \o Tokenize(DropFirst(s, ClosingQuote(s)))
    ELSE IF s[1] \in Letters \cup {"_"}
      THEN LET n == RunLength(s, Letters \cup AsciiDigits \cup {"_"})
           IN  <<Token("id", 0, Join(Slice(s, 1, n)))>>
                 \o Tokenize(DropFirst(s, n))
    ELSE IF Len(s) >= 2 /\ s[1] = "*" /\ s[2] = "*"
      THEN <<Token("op", 0, "**")>> \o Tokenize(DropFirst(s, 2))
    ELSE IF s[1] \in MathOperators
      THEN <<Token("op", 0, s[1])>> \o Tokenize(Tail(s))
    ELSE <<Token("bad", 0, s[1])>> \o Tokenize(Tail(s))

Ok(value) == [kind |-> "ok", value |-> value, error |-> ""]

Err(error) == [kind |-> "error", value |-> 0, error |-> error]

Parsed(res, rest) == [res |-> res, rest |-> rest]

(***************************************************************************)
(* Values of the interpreter.  A Python int has no width; the integers of  *)
(* this module do.  An int below 10^9 in magnitude is held as an integer   *)
(* (Small); a larger one (Large) as its sign and the limbs of its          *)
(* magnitude in base 1000, lowest limb first, without leading zero limbs.  *)
(* A str (Str) is held as its characters.                                   *)
(***************************************************************************)
Small(n) == [type |-> "int", n |-> n, items |-> <<>>]

Large(sign, limbs) == [type |-> "long", n |-> sign, items |-> limbs]

Str(chars) == [type |-> "str", n |-> 0, items |-> chars]

Abs(n) == IF n < 0 THEN 0 - n ELSE n

\* the limbs of the natural number n
RECURSIVE Limbs(_)
Limbs(n) == IF n = 0 THEN <<>> ELSE <<n % 1000>> \o Limbs(n \div 1000)

\* the natural number of at most three limbs
RECURSIVE LimbsToNat(_)
LimbsToNat(limbs) ==
    IF Len(limbs) = 0 THEN 0 ELSE limbs[1] + 1000 * LimbsToNat(Tail(limbs))

\* the number of limbs up to the highest limb that is not zero
TopLimb(limbs) ==
    IF \A i \in 1..Len(limbs) : limbs[i] = 0 THEN 0
    ELSE CHOOSE i \in 1..Len(limbs) :
           limbs[i] # 0 /\ \A j \in (i + 1)..Len(limbs) : limbs[j] = 0

\* limbs without leading zero limbs
Trim(limbs) == SubSeq(limbs, 1, TopLimb(limbs))

\* the int of sign `sign` (1 or -1) and magnitude `limbs`
Normal(sign, limbs) ==
    IF Len(Trim(limbs)) <= 3 THEN Small(sign * LimbsToNat(Trim(limbs)))
    ELSE Large(sign, Trim(limbs))

Magnitude(v) == IF v.type = "int" THEN Limbs(Abs(v.n)) ELSE v.items

Sign(v) == IF v.n < 0 THEN -1 ELSE 1

LimbAt(limbs, i) == IF i >= 1 /\ i <= Len(limbs) THEN limbs[i] ELSE 0

Longer(a, b) == IF Len(a) >= Len(b) THEN Len(a) ELSE Len(b)

\* the carry into limb i of a + b: some lower limb overflows and every limb
\* between passes the carry on
CarryInto(a, b, i) ==
    \E j \in 1..(i - 1) :
        /\ LimbAt(a, j) + LimbAt(b, j) >= 1000
        /\ \A k \in (j + 1)..(i - 1) : LimbAt(a, k) + LimbAt(b, k) = 999

\* a + b on magnitudes
AddLimbs(a, b) ==
    Trim([i \in 1..(Longer(a, b) + 1) |->
            (LimbAt(a, i) + LimbAt(b, i) + (IF CarryInto(a, b, i) THEN 1 ELSE 0))
              % 1000])

\* the borrow from limb i of a - b
BorrowFrom(a, b, i) ==
    \E j \in 1..(i - 1) :
        /\ LimbAt(a, j) < LimbAt(b, j)
        /\ \A k \in (j + 1)..(i - 1) : LimbAt(a, k) = LimbAt(b, k)

\* a - b on magnitudes with a >= b
SubLimbs(a, b) ==
    Trim([i \in 1..Len(a) |->
            (a[i] - LimbAt(b, i) - (IF BorrowFrom(a, b, i) THEN 1 ELSE 0)) % 1000])

\* the highest limb where a and b of one length differ
TopDifference(a, b) ==
    CHOOSE i \in 1..Len(a) :
        a[i] # b[i] /\ \A j \in (i + 1)..Len(a) : a[j] = b[j]

\* -1, 0 or 1 as the magnitude a is below, equal to or above b
CmpLimbs(a, b) ==
    IF Len(a) < Len(b) THEN -1
    ELSE IF Len(a) > Len(b) THEN 1
    ELSE IF a = b THEN 0
    ELSE IF a[TopDifference(a, b)] < b[TopDifference(a, b)] THEN -1
    ELSE 1

\* the sum of a[i] * b[k + 1 - i] over the i from `i` on
RECURSIVE Column(_, _, _, _)
Column(a, b, k, i) ==
    IF i > Len(a) \/ i > k THEN 0
    ELSE a[i] * LimbAt(b, k + 1 - i) + Column(a, b, k, i + 1)

\* the columns of the long multiplication of a by b, before any carry
Columns(a, b) == [k \in 1..(Len(a) + Len(b)) |-> Column(a, b, k, 1)]

\* the limbs made of digit `place` (0, 1 or 2) in base 1000 of every column,
\* moved up `place` limbs
ColumnLimbs(columns, place) ==
    [k \in 1..(Len(columns) + place) |->
        IF k <= place THEN 0
        ELSE IF place = 0 THEN columns[k] % 1000
        ELSE IF place = 1 THEN (columns[k - 1] \div 1000) % 1000
        ELSE columns[k - 2] \div 1000000]

MulColumns(columns) ==
    AddLimbs(AddLimbs(Trim(ColumnLimbs(columns, 0)), Trim(ColumnLimbs(columns, 1))),
             Trim(ColumnLimbs(columns, 2)))

\* a * b on magnitudes
MulLimbs(a, b) == MulColumns(Columns(a, b))

\* the largest k in lo..hi with b * k <= a, given b * lo <= a
RECURSIVE QuotientLimb(_, _, _, _)
QuotientLimb(a, b, lo, hi) ==
    IF lo = hi THEN lo
    ELSE IF CmpLimbs(MulLimbs(b, Limbs((lo + hi + 1) \div 2)), a) <= 0
      THEN QuotientLimb(a, b, (lo + hi + 1) \div 2, hi)
    ELSE QuotientLimb(a, b, lo, (lo + hi + 1) \div 2 - 1)

\* long division of the magnitude a by b # 0: limbs i and below of a are
\* still to bring down, rem is the remainder so far; gives quotient and
\* remainder
RECURSIVE DivLimbsFrom(_, _, _, _)
DivLimbsPut(division, k) == [q |-> division.q \o <<k>>, r |-> division.r]

DivLimbsStep(a, b, i, brought, k) ==
    DivLimbsPut(DivLimbsFrom(a, b, i - 1, SubLimbs(brought, MulLimbs(b, Limbs(k)))), k)

DivLimbsBring(a, b, i, brought) ==
    IF CmpLimbs(brought, b) < 0 THEN DivLimbsStep(a, b, i, brought, 0)
    ELSE DivLimbsStep(a, b, i, brought, QuotientLimb(brought, b, 1, 999))

DivLimbsFrom(a, b, i, rem) ==
    IF i = 0 THEN [q |-> <<>>, r |-> rem]
    ELSE DivLimbsBring(a, b, i, Trim(<<a[i]>> \o rem))

DivLimbs(a, b) == DivLimbsFrom(a, b, Len(a), <<>>)

\* v + w on ints
NumAddSigned(v, w) ==
    IF Sign(v) = Sign(w)
      THEN Normal(Sign(v), AddLimbs(Magnitude(v), Magnitude(w)))
    ELSE IF CmpLimbs(Magnitude(v), Magnitude(w)) >= 0
      THEN Normal(Sign(v), SubLimbs(Magnitude(v), Magnitude(w)))
    ELSE Normal(Sign(w), SubLimbs(Magnitude(w), Magnitude(v)))

FromInt(n) == IF Abs(n) < 1000000000 THEN Small(n) ELSE Large(IF n < 0 THEN -1 ELSE 1, Limbs(Abs(n)))

NumNeg(v) == IF v.type = "int" THEN Small(0 - v.n) ELSE Large(0 - v.n, v.items)

NumAdd(v, w) ==
    IF v.type = "int" /\ w.type = "int" THEN FromInt(v.n + w.n)
    ELSE NumAddSigned(v, w)

NumMul(v, w) ==
    IF v.type = "int" /\ w.type = "int" /\ Abs(v.n) <= 30000 /\ Abs(w.n) <= 30000
      THEN Small(v.n * w.n)
    ELSE Normal(Sign(v) * Sign(w), MulLimbs(Magnitude(v), Magnitude(w)))

\* the quotient of v by w # 0, rounded down
NumDivLimbs(sign, division) ==
    IF sign = 1 \/ Len(division.r) = 0 THEN Normal(sign, division.q)
    ELSE Normal(sign, AddLimbs(Trim(division.q), <<1>>))

NumDiv(v, w) ==
    IF v.type = "int" /\ w.type = "int" THEN Small(v.n \div w.n)
    ELSE NumDivLimbs(Sign(v) * Sign(w), DivLimbs(Magnitude(v), Magnitude(w)))

IsZero(v) == v.type = "int" /\ v.n = 0

\* the product of the ints in values
RECURSIVE Product(_)
Product(values) ==
    IF Len(values) = 1 THEN values[1]
    ELSE NumMul(values[1], Product(Tail(values)))

\* base ** exponent for an exponent >= 0, by repeated squaring: half is
\* base ** (exponent \div 2)
RECURSIVE Pow(_, _)
PowOfHalf(half, base, exponent) ==
    IF exponent % 2 = 0 THEN Product(<<half, half>>)
    ELSE Product(<<half, half, base>>)

Pow(base, exponent) ==
    IF exponent = 0 THEN Small(1)
    ELSE IF exponent = 1 THEN base
    ELSE PowOfHalf(Pow(base, exponent \div 2), base, exponent)

\* the quotient 1 / v for an int v # 0, rounded down
Reciprocal(v) ==
    IF v.type = "int" THEN Small(1 \div v.n)
    ELSE Small(IF v.n < 0 THEN -1 ELSE 0)

\* chars repeated count times
RECURSIVE Repeated(_, _)
Repeated(chars, count) ==
    IF count <= 0 THEN <<>>
    ELSE IF count = 1 THEN chars
    ELSE IF count % 2 = 0 THEN Repeated(chars \o chars, count \div 2)
    ELSE chars \o Repeated(chars \o chars, count \div 2)

TypeError == Err("Invalid expression: TypeError: unsupported operand type(s)")

\* the value of a unary sign applied to the factor that follows it
Signed(sign, inner) ==
    IF inner.res.kind = "error" THEN inner
    ELSE IF inner.res.value.type = "str" THEN Parsed(TypeError, <<>>)
    ELSE Parsed(Ok(IF sign = "-" THEN NumNeg(inner.res.value) ELSE inner.res.value),
                inner.rest)

\* base ** exponent for ints, power being base ** abs(exponent); a negative
\* exponent gives the quotient 1 / power
PowerOf(base, exponent, power) ==
    IF exponent >= 0 THEN Ok(power)
    ELSE IF IsZero(base) THEN Err("Division by zero")
    ELSE Ok(Reciprocal(power))

\* base ** exponent, the exponent being the factor parsed after the operator
Power(base, exponent) ==
    IF exponent.res.kind = "error" THEN exponent
    ELSE IF base.type = "str" \/ exponent.res.value.type # "int"
      THEN Parsed(TypeError, <<>>)
    ELSE Parsed(PowerOf(base, exponent.res.value.n,
                        Pow(base, Abs(exponent.res.value.n))),
                exponent.rest)

\* factor := ('+' | '-') factor | power ; power := atom ['**' factor] ;
\* atom := number | string | name ; result with the tokens left
RECURSIVE EvalFactor(_, _)
\* the atom of value `value` followed by the tokens `rest`
AfterAtom(value, rest, inputs) ==
    IF Len(rest) > 0 /\ rest[1].t = "op" /\ rest[1].name = "**"
      THEN Power(value, EvalFactor(Tail(rest), inputs))
      ELSE Parsed(Ok(value), rest)

\* the limbs of the int written as the decimal digits `digits`
LiteralLimbs(digits) ==
    [k \in 1..((Len(digits) + 2) \div 3) |->
        DigitsToNat(SubSeq(digits,
                           IF Len(digits) - 3 * k + 1 < 1 THEN 1
                           ELSE Len(digits) - 3 * k + 1,
                           Len(digits) - 3 * k + 3))]

\* the int written as the decimal digits `digits`
Literal(digits) ==
    IF Len(digits) <= 9 THEN Small(DigitsToNat(digits))
    ELSE Normal(1, LiteralLimbs(digits))

\* the value of the atom `tok`, a number, a string or a name in inputs
Atom(tok, inputs) ==
    IF tok.t = "num" THEN Literal(tok.chars)
    ELSE IF tok.t = "str" THEN Str(tok.chars)
    ELSE Small(inputs[tok.name])

EvalFactor(toks, inputs) ==
    IF Len(toks) = 0 THEN Parsed(Err("Invalid expression: syntax"), <<>>)
    ELSE IF toks[1].t = "id" /\ toks[1].name \notin DOMAIN inputs
      THEN Parsed(Err("Invalid expression: NameError: name is not defined"), <<>>)
    ELSE IF toks[1].t \in {"num", "str", "id"}
      THEN AfterAtom(Atom(toks[1], inputs), Tail(toks), inputs)
    ELSE IF toks[1].t = "op" /\ toks[1].name \in {"+", "-"}
      THEN Signed(toks[1].name, EvalFactor(Tail(toks), inputs))
    ELSE Parsed(Err("Invalid expression: syntax"), <<>>)

\* acc * right: the product of two ints, or a str repeated
Times(acc, right) ==
    IF acc.type = "str" /\ right.type = "str" THEN TypeError
    ELSE IF acc.type = "str"
      THEN (IF right.type = "int" THEN Ok(Str(Repeated(acc.items, right.n)))
            ELSE IF right.n < 0 THEN Ok(Str(<<>>))
            ELSE Err("Memory limit exceeded"))
    ELSE IF right.type = "str"
      THEN (IF acc.type = "int" THEN Ok(Str(Repeated(right.items, acc.n)))
            ELSE IF acc.n < 0 THEN Ok(Str(<<>>))
            ELSE Err("Memory limit exceeded"))
    ELSE Ok(NumMul(acc, right))

\* acc / right
Over(acc, right) ==
    IF acc.type = "str" \/ right.type = "str" THEN TypeError
    ELSE IF IsZero(right) THEN Err("Division by zero")
    ELSE Ok(NumDiv(acc, right))

\* term := factor (('*' | '/') factor)* ; acc is the value so far and right
\* the factor after the operator op
RECURSIVE EvalTermRest(_, _, _)
EvalTermApplied(res, rest, inputs) ==
    IF res.kind = "error" THEN Parsed(res, <<>>)
    ELSE EvalTermRest(res.value, rest, inputs)

EvalTermStep(acc, op, right, inputs) ==
    IF right.res.kind = "error" THEN right
    ELSE IF op = "*"
      THEN EvalTermApplied(Times(acc, right.res.value), right.rest, inputs)
    ELSE EvalTermApplied(Over(acc, right.res.value), right.rest, inputs)

EvalTermRest(acc, toks, inputs) ==
    IF Len(toks) = 0 \/ toks[1].t # "op" \/ toks[1].name \notin {"*", "/"}
      THEN Parsed(Ok(acc), toks)
    ELSE EvalTermStep(acc, toks[1].name, EvalFactor(Tail(toks), inputs), inputs)

EvalTermFrom(first, inputs) ==
    IF first.res.kind = "error" THEN first
    ELSE EvalTermRest(first.res.value, first.rest, inputs)

EvalTerm(toks, inputs) == EvalTermFrom(EvalFactor(toks, inputs), inputs)

\* acc + right or acc - right: on ints, or the concatenation of two strs
PlusMinus(acc, op, right) ==
    IF acc.type = "str" /\ right.type = "str" /\ op = "+"
      THEN Ok(Str(acc.items \o right.items))
    ELSE IF acc.type = "str" \/ right.type = "str" THEN TypeError
    ELSE Ok(NumAdd(acc, IF op = "+" THEN right ELSE NumNeg(right)))

\* expr := term (('+' | '-') term)* ; right is the term after the operator op
RECURSIVE EvalExprRest(_, _, _)
EvalExprApplied(res, rest, inputs) ==
    IF res.kind = "error" THEN res
    ELSE EvalExprRest(res.value, rest, inputs)

EvalExprStep(acc, op, right, inputs) ==
    IF right.res.kind = "error" THEN right.res
    ELSE EvalExprApplied(PlusMinus(acc, op, right.res.value), right.rest, inputs)

EvalExprRest(acc, toks, inputs) ==
    IF Len(toks) = 0 THEN Ok(acc)
    ELSE IF toks[1].t # "op" \/ toks[1].name \notin {"+", "-"}
      THEN Err("Invalid expression: syntax")
    ELSE EvalExprStep(acc, toks[1].name, EvalTerm(Tail(toks), inputs), inputs)

EvalExprFrom(first, inputs) ==
    IF first.res.kind = "error" THEN first.res
    ELSE EvalExprRest(first.res.value, first.rest, inputs)

\* Monty(expression).run(inputs): the value of the expression, or the error
MontyRun(expression, inputs) ==
    EvalExprFrom(EvalTerm(Tokenize(expression), inputs), inputs)

MAX_STRING_LENGTH == 1000

BLOCKED_TOKENS ==
    <<<<"i", "m", "p", "o", "r", "t">>,
      <<"e", "x", "e", "c">>,
      <<"e", "v", "a", "l">>,
      <<"c", "o", "m", "p", "i", "l", "e">>,
      <<"o", "p", "e", "n">>,
      <<"i", "n", "p", "u", "t">>,
      <<"r", "a", "w", "_", "i", "n", "p", "u", "t">>,
      <<"g", "l", "o", "b", "a", "l", "s">>,
      <<"l", "o", "c", "a", "l", "s">>,
      <<"v", "a", "r", "s">>,
      <<"d", "i", "r">>,
      <<"g", "e", "t", "a", "t", "t", "r">>,
      <<"s", "e", "t", "a", "t", "t", "r">>,
      <<"d", "e", "l", "a", "t", "t", "r">>,
      <<"h", "a", "s", "a", "t", "t", "r">>>>

BLOCKED_CONTROL_FLOW_KEYWORDS ==
    <<<<"f", "o", "r">>,
      <<"w", "h", "i", "l", "e">>,
      <<"d", "e", "f">>,
      <<"c", "l", "a", "s", "s">>,
      <<"l", "a", "m", "b", "d", "a">>,
      <<"i", "f">>>>

\* the characters the regular expression class \w matches
WordClass == Letters \cup AsciiDigits \cup SuperscriptDigits \cup {"_"}

\* the characters the regular expression class \s matches
SpaceClass == {" "}

\* re.search(rf"\b{word}\b", text) for a word made of \w characters: the
\* first position where the word stands between two word boundaries, or 0
WordAt(word, text, i) ==
    /\ Slice(text, i, i + Len(word) - 1) = word
    /\ (i = 1 \/ text[i - 1] \notin WordClass)
    /\ (i + Len(word) > Len(text) \/ text[i + Len(word)] \notin WordClass)

WordSearch(word, text) ==
    IF \E i \in 1..(Len(text) - Len(word) + 1) : WordAt(word, text, i)
      THEN CHOOSE i \in 1..(Len(text) - Len(word) + 1) :
              /\ WordAt(word, text, i)
              /\ \A j \in 1..(i - 1) : ~WordAt(word, text, j)
      ELSE 0

\* re.search(rf"\b{word}\b", text, flags=re.IGNORECASE)
WordSearchIgnoreCase(word, text) == WordSearch(Lower(word), Lower(text))

Found(token) == [found |-> TRUE, token |-> token]

NotFound == [found |-> FALSE, token |-> <<>>]

\* the first token of BLOCKED_TOKENS, from index i, that text holds as a word
RECURSIVE FirstBlockedToken(_, _)
FirstBlockedToken(i, text) ==
    IF i > Len(BLOCKED_TOKENS) THEN NotFound
    ELSE IF WordSearch(BLOCKED_TOKENS[i], text) > 0 THEN Found(BLOCKED_TOKENS[i])
    ELSE FirstBlockedToken(i + 1, text)

\* a search of the expression as it was typed, not lowered
_find_blocked_pattern_as_typed(expression) ==
    IF Contains(expression, <<"_", "_">>) THEN Found(<<"_", "_">>)
    ELSE FirstBlockedToken(1, expression)

_find_blocked_pattern(expression) ==
    IF Contains(Lower(expression), <<"_", "_">>) THEN Found(<<"_", "_">>)
    ELSE FirstBlockedToken(1, Lower(expression))

\* a keyword search that tells upper case from lower case
_contains_blocked_control_flow_as_typed(expression) ==
    \E i \in 1..Len(BLOCKED_CONTROL_FLOW_KEYWORDS) :
        WordSearch(BLOCKED_CONTROL_FLOW_KEYWORDS[i], expression) > 0

_contains_blocked_control_flow(expression) ==
    \E i \in 1..Len(BLOCKED_CONTROL_FLOW_KEYWORDS) :
        WordSearchIgnoreCase(BLOCKED_CONTROL_FLOW_KEYWORDS[i], expression) > 0

\* length of the longest suffix of s made of characters in chars
TrailingRun(s, chars) ==
    IF AllIn(s, chars) THEN Len(s)
    ELSE Len(s) - (CHOOSE i \in 1..Len(s) :
                      s[i] \notin chars /\ \A j \in (i + 1)..Len(s) : s[j] \in chars)

DropLast(s, n) == Slice(s, 1, Len(s) - n)

\* re.search(r"\*\*\s*([-+]?\d+)\s*$", expression): whether the expression
\* ends in ** and an integer, and the text of that integer
\* the text without the characters of chars it ends in
WithoutTrailing(s, chars) == DropLast(s, TrailingRun(s, chars))

\* the text without the sign it ends in, if it ends in one
WithoutSign(s) ==
    IF Len(s) > 0 /\ s[Len(s)] \in {"+", "-"} THEN DropLast(s, 1) ELSE s

EndsInStars(s) == Len(s) >= 2 /\ s[Len(s)] = "*" /\ s[Len(s) - 1] = "*"

\* body is the expression without trailing space, head what precedes its
\* final integer
ExponentMatchIn(body, head) ==
    [matched |-> /\ TrailingRun(body, AsciiDigits) > 0
                 /\ EndsInStars(WithoutTrailing(head, SpaceClass)),
     group |-> Slice(body, Len(head) + 1, Len(body))]

ExponentMatchOf(body) ==
    ExponentMatchIn(body, WithoutSign(WithoutTrailing(body, AsciiDigits)))

ExponentMatch(expression) ==
    ExponentMatchOf(WithoutTrailing(expression, SpaceClass))

\* an exponent limit that also refuses the exponent 100
ExponentTooLarge_from_100(exponent) == Abs(exponent) >= 100

\* abs(exponent) > 100
ExponentTooLarge(exponent) == Abs(exponent) > 100

\* the pre-checks of evaluate, in the order it makes them: Ok when the
\* expression goes on to the interpreter
\* pre-checks that look for the unsafe patterns before the length
Prechecked_patterns_first(expression) ==
    IF Len(Strip(expression)) = 0 THEN Err("Empty expression")
    ELSE IF _find_blocked_pattern(expression).found
      THEN Err("Unsafe pattern: " \o Join(_find_blocked_pattern(expression).token))
    ELSE IF Len(expression) > MAX_STRING_LENGTH THEN Err("Expression too long")
    ELSE IF _contains_blocked_control_flow(expression)
      THEN Err("Complex control flow not allowed")
    ELSE IF ExponentMatch(expression).matched
              /\ ExponentTooLarge(IntOf(ExponentMatch(expression).group))
      THEN Err("Exponent too large")
    ELSE Ok(0)

Prechecked(expression) ==
    IF Len(Strip(expression)) = 0 THEN Err("Empty expression")
    ELSE IF Len(expression) > MAX_STRING_LENGTH THEN Err("Expression too long")
    ELSE IF _find_blocked_pattern(expression).found
      THEN Err("Unsafe pattern: " \o Join(_find_blocked_pattern(expression).token))
    ELSE IF _contains_blocked_control_flow(expression)
      THEN Err("Complex control flow not allowed")
    ELSE IF ExponentMatch(expression).matched
              /\ ExponentTooLarge(IntOf(ExponentMatch(expression).group))
      THEN Err("Exponent too large")
    ELSE Ok(0)

MAX_SAFE_NUMBER == Pow(Small(10), 30)

MAX_NUMBER == MAX_SAFE_NUMBER

\* a returned int beyond the integers of this module: its sign and limbs
OkLong(sign, limbs) == [kind |-> "ok", value |-> sign, error |-> "", limbs |-> limbs]

\* a returned str
OkStr(chars) == [kind |-> "ok", value |-> 0, error |-> "", text |-> chars]

\* the three decimal digits of a limb
LimbDigits(limb) ==
    <<DigitChar(limb \div 100), DigitChar((limb \div 10) % 10), DigitChar(limb % 10)>>

\* the decimal digits of the limbs below limb `top`, highest first
LowerLimbDigits(limbs, top) ==
    [j \in 1..(3 * (top - 1)) |->
        LimbDigits(limbs[top - 1 - ((j - 1) \div 3)])[((j - 1) % 3) + 1]]

\* str(value) for an int
StrOfValue(value) ==
    IF value.type = "int" THEN StrOfInt(value.n)
    ELSE (IF value.n < 0 THEN <<"-">> ELSE <<>>)
           \o NatToStr(value.items[Len(value.items)])
           \o LowerLimbDigits(value.items, Len(value.items))

\* a size check that also refuses the limit itself
ExceedsMaxNumber_from_limit(value) ==
    CmpLimbs(Magnitude(value), Magnitude(MAX_NUMBER)) >= 0

\* abs(result) > self.MAX_NUMBER
ExceedsMaxNumber(value) ==
    CmpLimbs(Magnitude(value), Magnitude(MAX_NUMBER)) > 0

\* the size checks made on the interpreter's result before it is returned
Validated(result) ==
    IF result.kind = "error" THEN result
    ELSE IF result.value.type = "str"
      THEN (IF Len(result.value.items) > MAX_STRING_LENGTH
              THEN Err("String too long")
              ELSE OkStr(result.value.items))
    ELSE IF ExceedsMaxNumber(result.value)
      THEN Err("Number too large: " \o Join(StrOfValue(result.value)))
    ELSE IF result.value.type = "int" THEN Ok(result.value.n)
    ELSE OkLong(result.value.n, result.value.items)

\* SafeMathEvaluator(variables).evaluate(expression)
evaluate(expression, variables) ==
    IF Prechecked(expression).kind = "error" THEN Prechecked(expression)
    ELSE Validated(MontyRun(expression, variables))

(***************************************************************************)
(* Number facts (handlers/number_tree.py).                                 *)
(***************************************************************************)
MAX_NUMBER_TREE_INPUT == 10000

\* can_build_number_tree: "ok" with the verdict, or "raise" when isdigit()
\* accepts the text and int() then rejects it (ValueError).
can_build_number_tree(input_text) ==
    IF ~IsDigit(input_text) THEN [kind |-> "ok", value |-> FALSE]
    ELSE IF ~IntParses(input_text) THEN [kind |-> "raise", value |-> FALSE]
    ELSE [kind |-> "ok",
          value |-> (1 <= IntOf(input_text) /\ IntOf(input_text) <= MAX_NUMBER_TREE_INPUT)]

\* int(number ** 0.5)
IntSqrt(n) == CHOOSE r \in 0..n : r * r <= n /\ (r + 1) * (r + 1) > n

find_factor_pairs(number) ==
    {<<i, number \div i>> : i \in {j \in 1..IntSqrt(number) : number % j = 0}}

NumberProperties(number) ==
    LET factors == find_factor_pairs(number)
    IN  (IF number % 2 = 0 THEN {"Even number"} ELSE {"Odd number"})
        \cup (IF number % 3 = 0 THEN {"Divisible by 3"} ELSE {})
        \cup (IF number % 5 = 0 THEN {"Divisible by 5"} ELSE {})
        \cup (IF number % 10 = 0 THEN {"Divisible by 10"} ELSE {})
        \cup (IF Cardinality(factors) = 1 /\ factors = {<<1, number>>}
                THEN {"Prime number"}
              ELSE IF Cardinality(factors) = 2 THEN {"Semiprime"} ELSE {})
        \cup (IF IntSqrt(number) * IntSqrt(number) = number
                THEN {"Perfect square"} ELSE {})

build_number_tree_content(number) ==
    [number |-> number,
     factors |-> find_factor_pairs(number),
     properties |-> NumberProperties(number)]

(***************************************************************************)
(* Session, quiz records and responses.                                    *)
(***************************************************************************)
None == [none |-> TRUE]

NoClue == [kind |-> "none"]

\* Session(): a fresh conversation state
NewSession ==
    [math_env |-> [name \in {"last_number"} |-> 0],
     symbols_env |-> [name \in {} |-> 0],
     current_quiz |-> None,
     quiz_attempts |-> [id \in {} |-> 0],
     problems_solved |-> 0,
     current_streak |-> 0,
     achievements |-> {}]

\* dict.get(key, default)
Get(map, key, default) == IF key \in DOMAIN map THEN map[key] ELSE default

\* map[key] = value
Put(map, key, value) ==
    [k \in (DOMAIN map) \cup {key} |-> IF k = key THEN value ELSE map[k]]

\* The questions the generator can produce, by question text and answer.
QuizPool ==
    {[question |-> "2 + 3", answer |-> 5],
     [question |-> "4 + 4", answer |-> 8]}

\* QuizService.generate_math_question(difficulty): one generated record; the
\* id is the generation counter, so no two generations share an id.
generate_math_question(item, counter, difficulty) ==
    [id |-> counter + 1,
     question |-> item.question,
     answer |-> item.answer,
     difficulty |-> difficulty]

\* a check_answer that compares the submitted number with the stored one
check_answer_by_value(quiz, answer) ==
    IF IntParses(answer) THEN IntOf(answer) = quiz.answer
    ELSE StrOfInt(quiz.answer) = answer

\* QuizService.check_answer: exact equality of the submitted text and the
\* string form of the stored answer.
check_answer(quiz, answer) == StrOfInt(quiz.answer) = answer

(***************************************************************************)
(* QuizHandler (handlers/quiz.py).                                         *)
(***************************************************************************)
\* ^[+-]?\d+(?:\.\d+)?$
ANSWER_PATTERN(input_text) ==
    LET body == IF Len(input_text) > 0 /\ input_text[1] \in {"+", "-"}
                  THEN Tail(input_text) ELSE input_text
    IN  \/ Len(body) > 0 /\ AllIn(body, AsciiDigits)
        \/ \E i \in 2..(Len(body) - 1) :
              /\ body[i] = "."
              /\ AllIn(Slice(body, 1, i - 1), AsciiDigits)
              /\ AllIn(Slice(body, i + 1, Len(body)), AsciiDigits)

AnswerPrefix == <<"a", "n", "s", "w", "e", "r", ":">>

AnsPrefix == <<"a", "n", "s", ":">>

\* a can_handle that only knows bare numbers
QuizCanHandle_bare_only(input_text, session) ==
    session.current_quiz # None /\ ANSWER_PATTERN(input_text)

QuizCanHandle(input_text, session) ==
    IF session.current_quiz = None THEN FALSE
    ELSE IF ANSWER_PATTERN(input_text) THEN TRUE
    ELSE IF StartsWith(input_text, AnswerPrefix) \/ StartsWith(input_text, AnsPrefix)
      THEN TRUE
    ELSE FALSE

\* a difficulty level whose thresholds are passed one problem later
_get_difficulty_level_inclusive(session) ==
    IF session.problems_solved <= 5 THEN 1
    ELSE IF session.problems_solved <= 15 THEN 2
    ELSE IF session.problems_solved <= 30 THEN 3
    ELSE 4

_get_difficulty_level(session) ==
    IF session.problems_solved < 5 THEN 1
    ELSE IF session.problems_solved < 15 THEN 2
    ELSE IF session.problems_solved < 30 THEN 3
    ELSE 4

\* the answer text after removing an answer:/ans: prefix
ExtractAnswer(input_text) ==
    IF StartsWith(input_text, AnswerPrefix) THEN Strip(DropFirst(input_text, 7))
    ELSE IF StartsWith(input_text, AnsPrefix) THEN Strip(DropFirst(input_text, 4))
    ELSE input_text

\* a clue that names the decade above the stored answer's
QuizClue_next_decade(attempts, correct_answer) ==
    IF attempts < 3 THEN NoClue
    ELSE IF correct_answer < 10 THEN [kind |-> "less_than_10"]
    ELSE IF correct_answer < 50
      THEN [kind |-> "between",
            lo |-> ((correct_answer + 9) \div 10) * 10,
            hi |-> (((correct_answer + 9) \div 10) + 1) * 10]
    ELSE [kind |-> "starts_with", digit |-> StrOfInt(correct_answer)[1]]

QuizClue(attempts, correct_answer) ==
    IF attempts < 3 THEN NoClue
    ELSE IF correct_answer < 10 THEN [kind |-> "less_than_10"]
    ELSE IF correct_answer < 50
      THEN [kind |-> "between",
            lo |-> (correct_answer \div 10) * 10,
            hi |-> ((correct_answer \div 10) + 1) * 10]
    ELSE [kind |-> "starts_with", digit |-> StrOfInt(correct_answer)[1]]

\* a correct-answer branch that reports the streak it read before the increment
QuizHandleCorrect_stale_streak(quiz, counted, item, counter) ==
    LET solved == [counted EXCEPT
                     !.problems_solved = @ + 1,
                     !.current_streak = @ + 1]
        next_quiz == generate_math_question(
                         item, counter, _get_difficulty_level(solved))
        after == [solved EXCEPT !.current_quiz = next_quiz]
    IN  [kind |-> "response", session |-> after,
         response |->
           [type |-> "QUIZ", correct |-> TRUE,
            question |-> quiz.question, answer |-> quiz.answer,
            quiz |-> quiz, next_quiz |-> next_quiz,
            streak |-> counted.current_streak,
            total_solved |-> after.problems_solved,
            quiz_id |-> quiz.id]]

\* a correct-answer branch that clears the quiz and does not make the
\* generated one current
QuizHandleCorrect_leaves_no_quiz(quiz, counted, item, counter) ==
    LET solved == [counted EXCEPT
                     !.problems_solved = @ + 1,
                     !.current_streak = @ + 1]
        next_quiz == generate_math_question(
                         item, counter, _get_difficulty_level(solved))
        after == [solved EXCEPT !.current_quiz = None]
    IN  [kind |-> "response", session |-> after,
         response |->
           [type |-> "QUIZ", correct |-> TRUE,
            question |-> quiz.question, answer |-> quiz.answer,
            quiz |-> quiz, next_quiz |-> next_quiz,
            streak |-> after.current_streak,
            total_solved |-> after.problems_solved,
            quiz_id |-> quiz.id]]

\* the branch of QuizHandler.handle for a correct answer; counted is the
\* session after the attempt was counted
QuizHandleCorrect(quiz, counted, item, counter) ==
    LET solved == [counted EXCEPT
                     !.problems_solved = @ + 1,
                     !.current_streak = @ + 1]
        next_quiz == generate_math_question(
                         item, counter, _get_difficulty_level(solved))
        after == [solved EXCEPT !.current_quiz = next_quiz]
    IN  [kind |-> "response", session |-> after,
         response |->
           [type |-> "QUIZ", correct |-> TRUE,
            question |-> quiz.question, answer |-> quiz.answer,
            quiz |-> quiz, next_quiz |-> next_quiz,
            streak |-> after.current_streak,
            total_solved |-> after.problems_solved,
            quiz_id |-> quiz.id]]

\* a wrong-answer branch that forgets to reset the streak
QuizHandleWrong_keeps_streak(input_text, answer, quiz, counted) ==
    [kind |-> "response", session |-> counted,
     response |->
       [type |-> "QUIZ", correct |-> FALSE,
        user_answer |-> input_text,
        hint |-> "Great attempt! Keep going on this one.",
        clue |-> NoClue,
        quiz |-> quiz, attempts |-> counted.quiz_attempts[quiz.id],
        number_facts |-> None,
        quiz_id |-> quiz.id]]

\* a wrong-answer branch that attaches number facts only from the 3rd attempt
QuizHandleWrong_facts_from_third(input_text, answer, quiz, counted) ==
    LET failed == [counted EXCEPT !.current_streak = 0]
        attempts == failed.quiz_attempts[quiz.id]
        clue == QuizClue(attempts, quiz.answer)
        numeric_answer == Strip(answer)
        buildable == can_build_number_tree(numeric_answer)
        number_facts ==
            IF buildable.value /\ attempts >= 3
              THEN build_number_tree_content(IntOf(numeric_answer))
              ELSE None
    IN  IF buildable.kind = "raise"
          THEN [kind |-> "raise", session |-> failed, response |-> None]
        ELSE [kind |-> "response", session |-> failed,
              response |->
                [type |-> "QUIZ", correct |-> FALSE,
                 user_answer |-> input_text,
                 hint |-> IF clue # NoClue THEN "Great persistence! Helpful clue"
                          ELSE "Great attempt! Keep going on this one.",
                 clue |-> clue,
                 quiz |-> quiz, attempts |-> attempts,
                 number_facts |-> number_facts,
                 quiz_id |-> quiz.id]]

\* the branch of QuizHandler.handle for a wrong answer
QuizHandleWrong(input_text, answer, quiz, counted) ==
    LET failed == [counted EXCEPT !.current_streak = 0]
        attempts == failed.quiz_attempts[quiz.id]
        clue == QuizClue(attempts, quiz.answer)
        numeric_answer == Strip(answer)
        buildable == can_build_number_tree(numeric_answer)
        number_facts ==
            IF buildable.value
              THEN build_number_tree_content(IntOf(numeric_answer))
              ELSE None
    IN  IF buildable.kind = "raise"
          THEN [kind |-> "raise", session |-> failed, response |-> None]
        ELSE [kind |-> "response", session |-> failed,
              response |->
                [type |-> "QUIZ", correct |-> FALSE,
                 user_answer |-> input_text,
                 hint |-> IF clue # NoClue THEN "Great persistence! Helpful clue"
                          ELSE "Great attempt! Keep going on this one.",
                 clue |-> clue,
                 quiz |-> quiz, attempts |-> attempts,
                 number_facts |-> number_facts,
                 quiz_id |-> quiz.id]]

\* a handle that counts an attempt only when the answer is wrong
QuizHandle_counts_wrong_only(input_text, session, item, counter) ==
    LET quiz == session.current_quiz
        answer == ExtractAnswer(input_text)
    IN  IF quiz = None
          THEN [kind |-> "response", session |-> session,
                response |-> [type |-> "ERROR", content |-> "No active quiz."]]
        ELSE LET counted == [session EXCEPT
                               !.quiz_attempts =
                                   Put(@, quiz.id, Get(@, quiz.id, 0) + 1)]
             IN  IF check_answer(quiz, answer)
                   THEN QuizHandleCorrect(quiz, session, item, counter)
                   ELSE QuizHandleWrong(input_text, answer, quiz, counted)

\* QuizHandler.handle.  item is what the generator draws and counter its
\* generation counter; the outcome carries the session as the handler left it,
\* also when the handler raised part-way.
QuizHandle(input_text, session, item, counter) ==
    LET quiz == session.current_quiz
        answer == ExtractAnswer(input_text)
    IN  IF quiz = None
          THEN [kind |-> "response", session |-> session,
                response |-> [type |-> "ERROR", content |-> "No active quiz."]]
        ELSE LET counted == [session EXCEPT
                               !.quiz_attempts =
                                   Put(@, quiz.id, Get(@, quiz.id, 0) + 1)]
             IN  IF check_answer(quiz, answer)
                   THEN QuizHandleCorrect(quiz, counted, item, counter)
                   ELSE QuizHandleWrong(input_text, answer, quiz, counted)

(***************************************************************************)
(* Outcomes of a handler call: a response, the try-next signal, or an      *)
(* exception; each with the session as the handler left it.                *)
(***************************************************************************)
Responded(session, response) ==
    [kind |-> "response", session |-> session, response |-> response]

TryNext(session) == [kind |-> "trynext", session |-> session, response |-> None]

Raised(session) == [kind |-> "raise", session |-> session, response |-> None]

\* index of the first occurrence of sub in s, 0 when absent
IndexOf(s, sub) ==
    IF Contains(s, sub)
      THEN CHOOSE i \in 1..(Len(s) - Len(sub) + 1) :
             /\ Slice(s, i, i + Len(sub) - 1) = sub
             /\ \A j \in 1..(i - 1) : Slice(s, j, j + Len(sub) - 1) # sub
      ELSE 0

\* str.split(sep): the parts between the occurrences of sep
RECURSIVE Split(_, _)
Split(s, sep) ==
    IF ~Contains(s, sep) THEN <<s>>
    ELSE LET i == IndexOf(s, sep)
         IN  <<Slice(s, 1, i - 1)>> \o Split(DropFirst(s, i + Len(sep) - 1), sep)

\* str.split(sep, 1)
SplitOnce(s, sep) ==
    IF ~Contains(s, sep) THEN <<s>>
    ELSE LET i == IndexOf(s, sep)
         IN  <<Slice(s, 1, i - 1), DropFirst(s, i + Len(sep) - 1)>>

\* re.sub(r"\s+", " ", s)
RECURSIVE CollapseSpaces(_)
CollapseSpaces(s) ==
    IF Len(s) = 0 THEN <<>>
    ELSE IF s[1] = " "
      THEN <<" ">> \o CollapseSpaces(DropFirst(s, RunLength(s, {" "})))
    ELSE <<s[1]>> \o CollapseSpaces(Tail(s))

(***************************************************************************)
(* MathLookupHandler (handlers/math_lookup.py).                            *)
(***************************************************************************)
MathLookupCanHandle(input_text, session) ==
    Join(input_text) \in DOMAIN session.math_env

\* a lookup that answers without recording the number
MathLookupHandle_keeps_last(input_text, session) ==
    Responded(session,
              [type |-> "MATH_RESULT", expression |-> input_text,
               result |-> session.math_env[Join(input_text)],
               source |-> "math_env"])

MathLookupHandle(input_text, session) ==
    LET value == session.math_env[Join(input_text)]
    IN  Responded([session EXCEPT !.math_env = Put(@, "last_number", value)],
                  [type |-> "MATH_RESULT", expression |-> input_text,
                   result |-> value, source |-> "math_env"])

(***************************************************************************)
(* CustomDataHandler (handlers/custom_data.py).                            *)
(***************************************************************************)
\* session.custom_data, supplied by the data loader and never written
\* session.custom_data: the entries in the order the mapping holds them
CUSTOM_DATA ==
    <<[key |-> <<"B", "l", "u", "e">>, value |-> "sky"],
      [key |-> <<"b", "l", "u", "e">>, value |-> "ocean"],
      [key |-> <<"h", "e", "l", "l", "o">>, value |-> "world"]>>

\* index of the first entry of data from i on whose key equals input_text
\* ignoring case, or 0
RECURSIVE FirstFolded(_, _, _)
FirstFolded(data, input_text, i) ==
    IF i > Len(data) THEN 0
    ELSE IF Lower(data[i].key) = Lower(input_text) THEN i
    ELSE FirstFolded(data, input_text, i + 1)

\* a lookup that takes the first key equal ignoring case, exact or not
_lookup_folded_first(data, input_text) ==
    IF FirstFolded(data, input_text, 1) > 0
      THEN [found |-> TRUE, value |-> data[FirstFolded(data, input_text, 1)].value]
    ELSE [found |-> FALSE, value |-> ""]

\* CustomDataHandler._lookup: "found" with the value, or KeyError
_lookup(data, input_text) ==
    IF \E i \in 1..Len(data) : data[i].key = input_text
      THEN [found |-> TRUE,
            value |-> data[CHOOSE i \in 1..Len(data) : data[i].key = input_text].value]
    ELSE IF FirstFolded(data, input_text, 1) > 0
      THEN [found |-> TRUE, value |-> data[FirstFolded(data, input_text, 1)].value]
    ELSE [found |-> FALSE, value |-> ""]

CustomDataCanHandle(input_text, session) ==
    IF Len(CUSTOM_DATA) = 0 THEN FALSE
    ELSE _lookup(CUSTOM_DATA, input_text).found

CustomDataHandle(input_text, session) ==
    LET hit == _lookup(CUSTOM_DATA, input_text)
    IN  IF ~hit.found THEN Raised(session)
        ELSE Responded(session, [type |-> "TEXT", content |-> hit.value,
                                 source |-> "custom_data"])

(***************************************************************************)
(* NumberTreeHandler (handlers/number_tree.py).                            *)
(***************************************************************************)
\* can_handle; "raise" when can_build_number_tree raises
NumberTreeCanHandle(input_text, session) == can_build_number_tree(input_text)

NumberTreeHandle(input_text, session) ==
    IF ~IntParses(input_text)
      THEN Responded(session, [type |-> "ERROR", content |-> "Number tree error"])
    ELSE LET number == IntOf(input_text)
         IN  Responded([session EXCEPT !.math_env = Put(@, "last_number", number)],
                       [type |-> "TREE_DISPLAY",
                        content |-> build_number_tree_content(number),
                        is_prime |-> Cardinality(find_factor_pairs(number)) = 1])

(***************************************************************************)
(* LoopHandler: counting syntax start...end...step.                        *)
(***************************************************************************)
Ellipsis == <<".", ".", ".">>

LoopCanHandle(input_text, session) == Contains(input_text, Ellipsis)

\* range(start, end + 1, step) for a positive step
RECURSIVE CountUp(_, _, _)
CountUp(start, end, step) ==
    IF start > end THEN <<>> ELSE <<start>> \o CountUp(start + step, end, step)

LoopHandle(input_text, session) ==
    LET parts == Split(input_text, Ellipsis)
        nums == [i \in 1..Len(parts) |-> Strip(parts[i])]
    IN  IF Len(nums) < 2 \/ \E i \in 1..Len(nums) : i <= 3 /\ ~IntParses(nums[i])
          THEN TryNext(session)
        ELSE LET start == IntOf(nums[1])
                 end == IntOf(nums[2])
                 step == IF Len(nums) > 2 THEN IntOf(nums[3]) ELSE 1
             IN  IF step <= 0 THEN TryNext(session)
                 ELSE Responded(session,
                                [type |-> "LOOP_RESULT",
                                 numbers |-> CountUp(start, end, step)])

(***************************************************************************)
(* EmojiHandler (handlers/emoji.py).                                       *)
(***************************************************************************)
\* names the emoji library knows exactly, and words that occur in its names
EMOJI_EXACT == {"cat"}

EMOJI_WORDS == {"cat", "tree"}

EmojiCanHandle(input_text, session) ==
    Len(input_text) > 2 /\ Len(input_text) < 50 /\ IsAlpha(input_text)
        /\ ~Contains(input_text, <<" ">>)

\* a handler that answers a word with no emoji itself
EmojiHandle_answers_not_found(input_text, session) ==
    IF Join(input_text) \in EMOJI_EXACT
      THEN Responded(session, [type |-> "EMOJI", word |-> input_text,
                               found |-> TRUE, multiple |-> FALSE])
    ELSE IF Join(input_text) \in EMOJI_WORDS
      THEN Responded(session, [type |-> "EMOJI", word |-> input_text,
                               found |-> TRUE, multiple |-> TRUE])
    ELSE Responded(session, [type |-> "EMOJI", word |-> input_text,
                             found |-> FALSE, multiple |-> FALSE])

EmojiHandle(input_text, session) ==
    IF Join(input_text) \in EMOJI_EXACT
      THEN Responded(session, [type |-> "EMOJI", word |-> input_text,
                               found |-> TRUE, multiple |-> FALSE])
    ELSE IF Join(input_text) \in EMOJI_WORDS
      THEN Responded(session, [type |-> "EMOJI", word |-> input_text,
                               found |-> TRUE, multiple |-> TRUE])
    ELSE TryNext(session)

(***************************************************************************)
(* SymbolHandler (handlers/symbols.py).                                    *)
(***************************************************************************)
Placeholder(name) == [kind |-> "sym", name |-> name, v |-> 0]

Number(v) == [kind |-> "num", name |-> "", v |-> v]

\* names of SAFE_FUNCTIONS and MATH_CONSTANTS
_reserved_identifiers ==
    {"abs", "round", "min", "max", "sum", "len", "int", "float", "str", "bool",
     "pow", "sin", "cos", "tan", "asin", "acos", "atan", "atan2", "radians",
     "degrees", "sqrt", "log", "log2", "log10", "exp", "hypot", "gcd", "lcm",
     "factorial", "comb", "perm", "percent", "mean", "median", "mode", "stdev",
     "pstdev", "variance", "pvariance", "floor", "ceil",
     "pi", "e", "tau", "phi"}

WordChars == Letters \cup AsciiDigits \cup {"_"}

\* IDENTIFIER_PATTERN.findall: \b[A-Za-z_][A-Za-z0-9_]*\b, in order, each
\* identifier as its characters
RECURSIVE _extract_identifiers(_)
_extract_identifiers(s) ==
    IF Len(s) = 0 THEN <<>>
    ELSE IF s[1] \notin WordChars THEN _extract_identifiers(Tail(s))
    ELSE LET n == RunLength(s, WordChars)
         IN  (IF s[1] \in AsciiDigits THEN <<>> ELSE <<Slice(s, 1, n)>>)
               \o _extract_identifiers(DropFirst(s, n))

\* numeric values of math_env, overridden by numeric values of symbols_env
_numeric_env(session) ==
    LET numeric_symbols ==
            {name \in DOMAIN session.symbols_env :
                session.symbols_env[name].kind = "num"}
    IN  [name \in (DOMAIN session.math_env) \cup numeric_symbols |->
            IF name \in numeric_symbols THEN session.symbols_env[name].v
            ELSE session.math_env[name]]

\* identifiers of the expression that have no numeric value, in order
_undefined_identifiers(expression, session) ==
    SelectSeq(_extract_identifiers(expression),
              LAMBDA name : Join(name) \notin _reserved_identifiers
                            /\ Join(name) \notin DOMAIN _numeric_env(session))

_coaching_response(name, expression) ==
    [type |-> "TEXT", content |-> "Let's set a value first", coaching |-> TRUE,
     symbol |-> name, expression |-> expression]

Equals == <<"=">>

HasOperator(s) == \E i \in 1..Len(s) : s[i] \in MathOperators

HasLetter(s) == \E i \in 1..Len(s) : s[i] \in Letters

SymbolCanHandle(input_text, session) ==
    IF IsAlpha(input_text) /\ Len(input_text) < 5
      THEN Join(input_text) \notin DOMAIN session.math_env
    ELSE IF Contains(input_text, Equals)
            /\ IsAlpha(Strip(SplitOnce(input_text, Equals)[1]))
            /\ Len(Strip(SplitOnce(input_text, Equals)[1])) <= 10
      THEN TRUE
    ELSE IF ~HasOperator(input_text) THEN FALSE
    ELSE LET identifiers == _extract_identifiers(input_text)
             non_reserved == SelectSeq(identifiers,
                                       LAMBDA name : Join(name) \notin _reserved_identifiers)
         IN  IF Len(identifiers) = 0 THEN FALSE
             ELSE IF Len(non_reserved) = 0 THEN FALSE
             ELSE IF \E i \in 1..Len(non_reserved) :
                        Join(non_reserved[i]) \in DOMAIN session.symbols_env
               THEN TRUE
             ELSE \E i \in 1..Len(non_reserved) :
                     IsAlpha(non_reserved[i]) /\ Len(non_reserved[i]) <= 10

\* the expression branch of SymbolHandler.handle once the expression is
\* evaluated
SymbolEvaluated(input_text, session, result) ==
    IF result.kind = "error"
      THEN Responded(session, [type |-> "ERROR", content |-> "Symbol error",
                               error |-> result.error])
    ELSE Responded([session EXCEPT !.math_env = Put(@, "last_number", result.value)],
                   [type |-> "SYMBOL_RESULT", action |-> "evaluated",
                    expression |-> input_text, result |-> result.value,
                    symbols |-> DOMAIN session.symbols_env])

\* the expression branch of SymbolHandler.handle
SymbolExpression(input_text, session) ==
    IF Len(_undefined_identifiers(input_text, session)) > 0
      THEN Responded(session,
                     _coaching_response(
                         Join(_undefined_identifiers(input_text, session)[1]),
                         input_text))
    ELSE SymbolEvaluated(input_text, session,
                         evaluate(input_text, _numeric_env(session)))

\* an assignment that binds the name in symbols_env only
SymbolAssigned_symbols_only(input_text, session, var_name, undefined, value) ==
    IF Len(undefined) > 0
      THEN Responded(session, _coaching_response(Join(undefined[1]), input_text))
    ELSE IF value.kind = "error"
      THEN Responded(session, [type |-> "ERROR", content |-> "Symbol error",
                               error |-> value.error])
    ELSE Responded([session EXCEPT
                      !.symbols_env = Put(@, var_name, Number(value.value))],
                   [type |-> "SYMBOL_RESULT", symbol |-> var_name,
                    value |-> Number(value.value), action |-> "assigned"])

\* the assignment branch of SymbolHandler.handle: undefined are the names
\* of the right-hand side without a number, value what it evaluates to
SymbolAssigned(input_text, session, var_name, undefined, value) ==
    IF Len(undefined) > 0
      THEN Responded(session, _coaching_response(Join(undefined[1]), input_text))
    ELSE IF value.kind = "error"
      THEN Responded(session, [type |-> "ERROR", content |-> "Symbol error",
                               error |-> value.error])
    ELSE Responded([session EXCEPT
                      !.symbols_env = Put(@, var_name, Number(value.value)),
                      !.math_env = Put(@, var_name, value.value)],
                   [type |-> "SYMBOL_RESULT", symbol |-> var_name,
                    value |-> Number(value.value), action |-> "assigned"])

\* the names of value_str without a number, the assigned name left out
UndefinedBut(var_name, value_str, session) ==
    SelectSeq(_undefined_identifiers(value_str, session),
              LAMBDA name : Join(name) # var_name)

SymbolHandle(input_text, session) ==
    IF IsAlpha(input_text) /\ Len(input_text) < 5
      THEN LET name == Join(input_text)
           IN  IF name \in DOMAIN session.symbols_env
                 THEN Responded(session,
                                [type |-> "SYMBOL_RESULT", symbol |-> name,
                                 value |-> session.symbols_env[name],
                                 action |-> "found"])
               ELSE Responded([session EXCEPT
                                 !.symbols_env = Put(@, name, Placeholder(name))],
                              [type |-> "SYMBOL_RESULT", symbol |-> name,
                               value |-> Placeholder(name), action |-> "created"])
    ELSE IF Contains(input_text, Equals)
            /\ IsAlpha(Strip(SplitOnce(input_text, Equals)[1]))
            /\ Len(Strip(SplitOnce(input_text, Equals)[1])) <= 10
      THEN SymbolAssigned(input_text, session,
                          Join(Strip(SplitOnce(input_text, Equals)[1])),
                          UndefinedBut(Join(Strip(SplitOnce(input_text, Equals)[1])),
                                       Strip(SplitOnce(input_text, Equals)[2]),
                                       session),
                          evaluate(Strip(SplitOnce(input_text, Equals)[2]),
                                   _numeric_env(session)))
    ELSE SymbolExpression(input_text, session)

(***************************************************************************)
(* MathHandler (handlers/math.py).                                         *)
(***************************************************************************)
\* the characters read as a multiplication sign between numeric terms
MultiplyAliases == {"x", "U+00D7"}

\* nearest index left of i that is not a space, 0 when there is none
LeftNeighbour(s, i) ==
    IF \A j \in 1..(i - 1) : s[j] = " " THEN 0
    ELSE CHOOSE j \in 1..(i - 1) : s[j] # " " /\ \A k \in (j + 1)..(i - 1) : s[k] = " "

\* nearest index right of i that is not a space, 0 when there is none
RightNeighbour(s, i) ==
    IF \A j \in (i + 1)..Len(s) : s[j] = " " THEN 0
    ELSE CHOOSE j \in (i + 1)..Len(s) : s[j] # " " /\ \A k \in (i + 1)..(j - 1) : s[k] = " "

\* a match of (?<=[\d\)])\s*[x U+00D7]\s*(?=[\d\(]) whose alias is at index i
MultiplyMatchAt(s, i) ==
    /\ s[i] \in MultiplyAliases
    /\ LeftNeighbour(s, i) # 0
    /\ s[LeftNeighbour(s, i)] \in AsciiDigits \cup {")"}
    /\ RightNeighbour(s, i) # 0
    /\ s[RightNeighbour(s, i)] \in AsciiDigits \cup {"("}

MULTIPLY_X_PATTERN(s) == \E i \in 1..Len(s) : MultiplyMatchAt(s, i)

\* MULTIPLY_X_PATTERN.sub(" * ", s)
RECURSIVE MultiplySub(_)
MultiplySub(s) ==
    IF ~MULTIPLY_X_PATTERN(s) THEN s
    ELSE LET i == CHOOSE k \in 1..Len(s) :
                     MultiplyMatchAt(s, k) /\ \A j \in 1..(k - 1) : ~MultiplyMatchAt(s, j)
         IN  Slice(s, 1, LeftNeighbour(s, i)) \o <<" ", "*", " ">>
               \o MultiplySub(DropFirst(s, RightNeighbour(s, i) - 1))

_normalize_multiplication_aliases(expression) ==
    IF ~MULTIPLY_X_PATTERN(expression)
      THEN [text |-> expression, interpreted |-> FALSE]
    ELSE [text |-> Strip(CollapseSpaces(MultiplySub(expression))), interpreted |-> TRUE]

MathCanHandle(input_text, session) ==
    IF HasOperator(input_text) THEN TRUE
    ELSE IF MULTIPLY_X_PATTERN(input_text) THEN TRUE
    ELSE IF Contains(input_text, Equals) /\ ~StartsWith(input_text, Equals)
      THEN LET parts == Split(input_text, Equals)
           IN  IF Len(parts) = 2 /\ IsAlpha(Strip(parts[1])) /\ Len(Strip(parts[1])) <= 5
                 THEN FALSE
               ELSE TRUE
    ELSE FALSE

\* "nameerror" in error_text or "not defined" in error_text
IsNameError(error) == error = "Invalid expression: NameError: name is not defined"

\* the except-clause of MathHandler.handle for a SafeMathError
MathError(input_text, session, error) ==
    IF HasLetter(input_text) /\ IsNameError(error) THEN TryNext(session)
    ELSE Responded(session, [type |-> "ERROR", content |-> "Math error",
                             error |-> error])

\* "Check if this solves a quiz" (math.py lines 100-103)
\* a quiz check that also retires the quiz it found solved
MathQuizCheck_retires(session, result) ==
    IF session.current_quiz # None
         /\ StrOfInt(result) = StrOfInt(session.current_quiz.answer)
      THEN [session EXCEPT !.problems_solved = @ + 1, !.current_streak = @ + 1,
                           !.current_quiz = None]
      ELSE session

MathQuizCheck(session, result) ==
    IF session.current_quiz # None
         /\ StrOfInt(result) = StrOfInt(session.current_quiz.answer)
      THEN [session EXCEPT !.problems_solved = @ + 1, !.current_streak = @ + 1]
      ELSE session

\* the assignment branch of MathHandler.handle once the right-hand side is
\* evaluated
MathAssigned(input_text, session, clean_expr, note, var_name, result) ==
    IF result.kind = "error" THEN MathError(input_text, session, result.error)
    ELSE Responded(
           MathQuizCheck(
             [session EXCEPT !.math_env = Put(@, var_name, result.value)],
             result.value),
           [type |-> "MATH_RESULT", expression |-> clean_expr,
            result |-> result.value, note |-> note])

\* the expression branch of MathHandler.handle once the expression is evaluated
MathEvaluated(input_text, session, clean_expr, note, result) ==
    IF result.kind = "error" THEN MathError(input_text, session, result.error)
    ELSE Responded(
           MathQuizCheck(
             [session EXCEPT !.math_env = Put(@, "last_number", result.value)],
             result.value),
           [type |-> "MATH_RESULT", expression |-> clean_expr,
            result |-> result.value, note |-> note])

\* MathHandler.handle from the cleaned expression on
MathHandleClean(input_text, session, clean_expr, note) ==
    IF Contains(clean_expr, Equals) /\ ~StartsWith(clean_expr, Equals)
      THEN MathAssigned(input_text, session, clean_expr, note,
                        Join(Strip(SplitOnce(clean_expr, Equals)[1])),
                        evaluate(Strip(SplitOnce(clean_expr, Equals)[2]),
                                 session.math_env))
      ELSE MathEvaluated(input_text, session, clean_expr, note,
                         evaluate(clean_expr, session.math_env))

\* MathHandler.handle from the normalized text on: an expression that starts
\* with an operator continues from last_number
MathHandleNormalized(input_text, session, normalized) ==
    MathHandleClean(input_text, session,
                    IF Len(normalized.text) > 0 /\ normalized.text[1] \in MathOperators
                      THEN StrOfInt(Get(session.math_env, "last_number", 0))
                             \o <<" ">> \o normalized.text
                      ELSE normalized.text,
                    normalized.interpreted)

MathHandle(input_text, session) ==
    MathHandleNormalized(input_text, session,
                         _normalize_multiplication_aliases(
                             CollapseSpaces(Strip(input_text))))

(***************************************************************************)
(* ColorHandler: color-name lookup.                                        *)
(***************************************************************************)
COLOR_NAMES == {"blue", "red"}

ColorCanHandle(input_text, session) == Join(Lower(input_text)) \in COLOR_NAMES

ColorHandle(input_text, session) ==
    Responded(session, [type |-> "COLOR", color |-> Join(Lower(input_text))])

(***************************************************************************)
(* RepeatedCharHandler (handlers/repeated_chars.py).                       *)
(***************************************************************************)
RepeatedCharCanHandle(input_text, session) ==
    IsAlpha(input_text) /\ Len(input_text) > 5
        /\ Cardinality({input_text[i] : i \in 1..Len(input_text)}) = 1

RepeatedCharHandle(input_text, session) ==
    Responded(session, [type |-> "TEXT",
                        content |-> Join(StrOfInt(Len(input_text))
                                           \o <<" ", "x", " ">> \o <<input_text[1]>>),
                        source |-> "repeated_chars"])

(***************************************************************************)
(* GibberishHandler (handlers/gibberish.py).                               *)
(***************************************************************************)
GibberishCanHandle(input_text, session) ==
    Len(input_text) > 10 /\ HasLetter(input_text)

GibberishHandle(input_text, session) ==
    Responded(session,
              [type |-> "TEXT", content |-> "summary",
               counts |->
                 [char \in {input_text[i] : i \in 1..Len(input_text)} \cap Letters |->
                    Cardinality({i \in 1..Len(input_text) : input_text[i] = char})],
               source |-> "gibberish"])

(***************************************************************************)
(* Achievement tracker.                                                    *)
(***************************************************************************)
BADGES == {"first_five", "streak_5", "first_ten"}

BadgeEarned(badge, session) ==
    CASE badge = "first_five" -> session.problems_solved >= 5
      [] badge = "streak_5" -> session.current_streak >= 5
      [] badge = "first_ten" -> session.problems_solved >= 10

\* an evaluation that reports every earned badge, unlocked before or not
check_achievements_all(session) ==
    {badge \in BADGES : BadgeEarned(badge, session)}

\* badges the counters have earned that are not yet in session.achievements
check_achievements(session) ==
    {badge \in BADGES : BadgeEarned(badge, session) /\ badge \notin session.achievements}

(***************************************************************************)
(* KidShellEngine: handler registry and dispatcher.                        *)
(***************************************************************************)
HANDLERS ==
    <<"quiz", "math_lookup", "custom_data", "number_tree", "loop", "emoji",
      "symbol", "math", "color", "repeated_chars", "gibberish">>

Accepts(value) == [kind |-> "ok", value |-> value]

\* handler.can_handle(input_text, session): the verdict, or "raise"
CanHandle(handler, input_text, session) ==
    CASE handler = "quiz" -> Accepts(QuizCanHandle(input_text, session))
      [] handler = "math_lookup" -> Accepts(MathLookupCanHandle(input_text, session))
      [] handler = "custom_data" -> Accepts(CustomDataCanHandle(input_text, session))
      [] handler = "number_tree" -> NumberTreeCanHandle(input_text, session)
      [] handler = "loop" -> Accepts(LoopCanHandle(input_text, session))
      [] handler = "emoji" -> Accepts(EmojiCanHandle(input_text, session))
      [] handler = "symbol" -> Accepts(SymbolCanHandle(input_text, session))
      [] handler = "math" -> Accepts(MathCanHandle(input_text, session))
      [] handler = "color" -> Accepts(ColorCanHandle(input_text, session))
      [] handler = "repeated_chars" -> Accepts(RepeatedCharCanHandle(input_text, session))
      [] handler = "gibberish" -> Accepts(GibberishCanHandle(input_text, session))

\* handler.handle(input_text, session)
Handle(handler, input_text, session, item, counter) ==
    CASE handler = "quiz" -> QuizHandle(input_text, session, item, counter)
      [] handler = "math_lookup" -> MathLookupHandle(input_text, session)
      [] handler = "custom_data" -> CustomDataHandle(input_text, session)
      [] handler = "number_tree" -> NumberTreeHandle(input_text, session)
      [] handler = "loop" -> LoopHandle(input_text, session)
      [] handler = "emoji" -> EmojiHandle(input_text, session)
      [] handler = "symbol" -> SymbolHandle(input_text, session)
      [] handler = "math" -> MathHandle(input_text, session)
      [] handler = "color" -> ColorHandle(input_text, session)
      [] handler = "repeated_chars" -> RepeatedCharHandle(input_text, session)
      [] handler = "gibberish" -> GibberishHandle(input_text, session)

Step(handler, verdict) == [handler |-> handler, verdict |-> verdict]

Dispatched(session, response, trace) ==
    [session |-> session, response |-> response, trace |-> trace]

\* a dispatch boundary that lets the exception through
OnException_propagates(session, trace) ==
    Dispatched(session, [type |-> "EXCEPTION", content |-> "ValueError"], trace)

\* an exception escaping can_handle or handle, converted at the dispatch
\* boundary into an ERROR response
OnException(session, trace) ==
    Dispatched(session, [type |-> "ERROR", content |-> "Error processing input"], trace)

\* a scan that skips the handler after the one that signalled try-next
ResumeAfter_skips(i) == i + 2

\* where scanning goes on after the handler at index i signalled try-next
ResumeAfter(i) == i + 1

\* The dispatch loop from the handler at index i on.  trace lists, in order,
\* every handler consulted with what came of it: "declined" (can_handle
\* false), "trynext", "response", or "raise" (an exception, reported as an
\* ERROR response).
RECURSIVE Dispatch(_, _, _, _, _, _)
Dispatch(i, input_text, session, item, counter, trace) ==
    IF i > Len(HANDLERS)
      THEN Dispatched(session,
                      [type |-> "ERROR", content |-> "I don't understand"], trace)
    ELSE LET handler == HANDLERS[i]
             can == CanHandle(handler, input_text, session)
             outcome == Handle(handler, input_text, session, item, counter)
         IN  IF can.kind = "raise"
               THEN OnException(session, Append(trace, Step(handler, "raise")))
             ELSE IF ~can.value
               THEN Dispatch(i + 1, input_text, session, item, counter,
                             Append(trace, Step(handler, "declined")))
             ELSE IF outcome.kind = "trynext"
               THEN Dispatch(ResumeAfter(i), input_text, outcome.session, item, counter,
                             Append(trace, Step(handler, "trynext")))
             ELSE IF outcome.kind = "raise"
               THEN OnException(outcome.session, Append(trace, Step(handler, "raise")))
             ELSE Dispatched(outcome.session, outcome.response,
                             Append(trace, Step(handler, "response")))

(***************************************************************************)
(* The engine as a state machine: one action per call of its interface.    *)
(***************************************************************************)
VARIABLES session, pending, quiz_counter, turn, inputs_seen, files, save, evaluator,
          executor, startup

vars == <<session, pending, quiz_counter, turn, inputs_seen, files, save, evaluator,
          executor, startup>>

\* the texts a user types
INPUTS ==
    {<<>>,
     <<"5">>, <<"8">>, <<"9", "9">>, <<"+", "5">>, <<"*", "2">>, <<"*", "x">>,
     <<"a", "n", "s", "w", "e", "r", ":", " ", "5">>,
     <<"a", "n", "s", ":", "^2">>,
     <<"^2">>,
     <<"0", ".", ".", ".", "4", ".", ".", ".", "2">>,
     <<"2", " ", "+", " ", "3">>,
     <<"x">>, <<"x", " ", "=", " ", "7">>, <<"x", " ", "+", " ", "3">>,
     <<"x", "1", " ", "+", " ", "2">>,
     <<"b", "l", "u", "e">>, <<"B", "L", "U", "E">>,
     <<"b", "l", "u", "e", " ", "=", " ", "3">>, <<"r", "e", "d">>,
     <<"t", "r", "e", "e">>, <<"f", "o", "o">>,
     <<"a", "a", "a", "a", "a", "a">>}

\* a path as its stem and the list of its extensions
SESSION_STATE_PATH == [stem |-> "session_state", exts |-> <<".json">>]

PROFILE_PATH == [stem |-> "profile", exts |-> <<".json">>]

\* Path.suffix: the last extension
suffix(path) == path.exts[Len(path.exts)]

\* a rename that leaves the path as it is
with_suffix_unchanged(path, new_exts) == path

\* Path.with_suffix: the last extension replaced
with_suffix(path, new_exts) ==
    [path EXCEPT !.exts = SubSeq(@, 1, Len(@) - 1) \o new_exts]

\* what a path holds: nothing, a file some bytes of which were written, or a
\* file with a whole document
Absent == [kind |-> "absent"]

Partial == [kind |-> "partial"]

Complete(data) == [kind |-> "complete", data |-> data]

\* temp_path of save_persisted_session and of save_profile
temp_path(which) ==
    IF which = "session"
      THEN with_suffix(SESSION_STATE_PATH, <<suffix(SESSION_STATE_PATH), ".tmp">>)
      ELSE with_suffix(PROFILE_PATH, <<".tmp">>)

target_path(which) == IF which = "session" THEN SESSION_STATE_PATH ELSE PROFILE_PATH

PATHS == {target_path(which) : which \in {"session", "profile"}}
            \cup {temp_path(which) : which \in {"session", "profile"}}

\* the profiles the onboarding may save
PROFILES == {[name |-> "Ada", birth_year |-> 2018],
             [name |-> "Ada", birth_year |-> 2017]}

\* SecureExecutor(variables): no execution counted, nothing compiled and, for
\* the record of the last call, nothing called; runs counts the calls handed
\* to the interpreter since the last reset_limits and exhausted tells
\* whether a call was ever refused for the limit
NewExecutor ==
    [execution_count |-> 0, _monty_cache |-> [key \in {} |-> <<>>],
     op |-> "init", code |-> <<>>, outcome |-> Ok(0), ran |-> FALSE,
     runs |-> 0, exhausted |-> FALSE]

\* what the interpreter raised in a call: an exception type and its message
Exception(exception, message) == [exception |-> exception, message |-> message]

\* the interpreter raised nothing the model does not compute itself
NoError == Exception("none", <<>>)

\* the variables an evaluator is constructed with
EVALUATOR_VARIABLES == [name \in {"x"} |-> 7]

\* SafeMathEvaluator.__init__: an evaluator with an empty interpreter cache
\* that has evaluated nothing yet
NewEvaluator ==
    [variables |-> EVALUATOR_VARIABLES, _monty_cache |-> [key \in {} |-> <<>>],
     evaluated |-> FALSE, expression |-> <<>>, inputs |-> EVALUATOR_VARIABLES,
     raised |-> NoError, needed |-> 0, elapsed |-> 0,
     outcome |-> Ok(0), created |-> FALSE, ran |-> FALSE]

\* no save is running
\* main() of the frontend has not run
NotStarted == [op |-> "none", start_new |-> FALSE, loaded |-> "none",
               exception |-> "", restored |-> FALSE]

NoSave == [pc |-> "idle", which |-> "session", payload |-> None,
           before |-> Absent, result |-> "none"]

Turn(op, input, returned, trace, handled, unlocked) ==
    [op |-> op, input |-> input, returned |-> returned, trace |-> trace,
     handled |-> handled, unlocked |-> unlocked]

\* the session a conversation resumes from a snapshot taken after the first
\* four quizzes were each solved at the first attempt
ResumedSession ==
    [NewSession EXCEPT
       !.current_quiz = generate_math_question(
                            [question |-> "2 + 3", answer |-> 5], 4, 1),
       !.quiz_attempts = [id \in 1..4 |-> 1],
       !.problems_solved = 4,
       !.current_streak = 4]

\* KidShellEngine(session): a fresh session or a resumed one
\* the state after construction, with `state_file` where the session state
\* is kept
InitWith(state_file) ==
    /\ \/ session = NewSession /\ quiz_counter = 0
       \/ session = ResumedSession /\ quiz_counter = 5
    /\ pending = None
    /\ turn = Turn("init", <<>>, None, <<>>, None, {})
    /\ inputs_seen = 0
    /\ files = [path \in PATHS |->
                  IF path = SESSION_STATE_PATH THEN state_file ELSE Absent]
    /\ save = NoSave
    /\ evaluator = NewEvaluator
    /\ executor = NewExecutor
    /\ startup = NotStarted

Init == InitWith(Absent)

\* a response to a quiz answer that was judged correct
IsCorrectAnswer(response) ==
    response.type = "QUIZ" /\ "correct" \in DOMAIN response /\ response.correct

\* the draws of the generator that matter to a turn: all of them when the
\* turn generates a quiz, one otherwise
Draws(input_text) ==
    IF Len(input_text) = 0
         \/ (QuizCanHandle(input_text, session)
               /\ check_answer(session.current_quiz, ExtractAnswer(input_text)))
      THEN QuizPool
      ELSE {CHOOSE item \in QuizPool : TRUE}

\* an empty input that answers with a quiz it does not make current
HandleEmptyInput_only_responds(item) ==
    LET quiz == generate_math_question(item, quiz_counter,
                                       _get_difficulty_level(session))
    IN  /\ session' = session
        /\ quiz_counter' = quiz_counter + 1
        /\ pending' = pending
        /\ turn' = Turn("process_input", <<>>, [type |-> "QUIZ", quiz |-> quiz],
                        <<>>, None, {})

\* _handle_empty_input: empty input generates a quiz and makes it current
HandleEmptyInput(item) ==
    LET quiz == generate_math_question(item, quiz_counter,
                                       _get_difficulty_level(session))
    IN  /\ session' = [session EXCEPT !.current_quiz = quiz]
        /\ quiz_counter' = quiz_counter + 1
        /\ pending' = pending
        /\ turn' = Turn("process_input", <<>>, [type |-> "QUIZ", quiz |-> quiz],
                        <<>>, None, {})

\* a process_input that loses the quiz response when an achievement unlocks
HandleText_drops_advance(input_text, item) ==
    \E found \in {Dispatch(1, input_text, session, item, quiz_counter, <<>>)} :
    \E unlocked \in {IF IsCorrectAnswer(found.response)
                       THEN check_achievements(found.session) ELSE {}} :
        /\ session' = [found.session EXCEPT !.achievements = @ \cup unlocked]
        /\ quiz_counter' = IF IsCorrectAnswer(found.response)
                             THEN quiz_counter + 1 ELSE quiz_counter
        /\ pending' = pending
        /\ turn' = Turn("process_input", input_text,
                        IF unlocked # {}
                          THEN [type |-> "ACHIEVEMENT", achievements |-> unlocked,
                                total_solved |-> found.session.problems_solved]
                          ELSE found.response,
                        found.trace, found.response, unlocked)

\* process_input for a non-empty text: dispatch, then achievement evaluation
\* after a correct answer
HandleText(input_text, item) ==
    \E found \in {Dispatch(1, input_text, session, item, quiz_counter, <<>>)} :
    \E unlocked \in {IF IsCorrectAnswer(found.response)
                       THEN check_achievements(found.session) ELSE {}} :
        /\ session' = [found.session EXCEPT !.achievements = @ \cup unlocked]
        /\ quiz_counter' = IF IsCorrectAnswer(found.response)
                             THEN quiz_counter + 1 ELSE quiz_counter
        /\ IF unlocked # {}
             THEN /\ pending' = found.response
                  /\ turn' = Turn("process_input", input_text,
                                  [type |-> "ACHIEVEMENT", achievements |-> unlocked,
                                   total_solved |-> found.session.problems_solved],
                                  found.trace, found.response, unlocked)
             ELSE /\ pending' = pending
                  /\ turn' = Turn("process_input", input_text, found.response,
                                  found.trace, found.response, {})

\* KidShellEngine.process_input(text) for a text among `texts`
ProcessInputAmong(texts) ==
    /\ inputs_seen < MaxInputs
    /\ inputs_seen' = inputs_seen + 1
    /\ \E text \in texts :
         \E item \in Draws(Strip(text)) :
            IF Len(Strip(text)) = 0 THEN HandleEmptyInput(item)
            ELSE HandleText(Strip(text), item)
    /\ UNCHANGED <<files, save, evaluator, executor, startup>>

\* KidShellEngine.process_input(text)
ProcessInput == ProcessInputAmong(INPUTS)

\* KidShellEngine.get_pending_response()
GetPendingResponse ==
    /\ turn' = Turn("get_pending_response", <<>>, pending, <<>>, None, {})
    /\ pending' = None
    /\ UNCHANGED <<session, quiz_counter, inputs_seen, files, save, evaluator, executor, startup>>

Next == ProcessInput \/ GetPendingResponse

Spec == Init /\ [][Next]_vars

(***************************************************************************)
(* The engine given answers only: the empty input, which poses a quiz, and *)
(* numbers written in several ways, bare or after answer: or ans:.         *)
(***************************************************************************)
ANSWER_INPUTS ==
    {<<>>,
     <<"5">>,
     <<"8">>,
     <<"+", "5">>,
     <<"5", ".", "0">>,
     <<"0", "5">>,
     <<"a", "n", "s", "w", "e", "r", ":", " ", "5">>,
     <<"a", "n", "s", ":", "0", "5">>,
     <<"a", "n", "s", ":", " ", "8", " ">>}

ProcessAnswer == ProcessInputAmong(ANSWER_INPUTS)

NextAnswer == ProcessAnswer \/ GetPendingResponse

SpecAnswer == Init /\ [][NextAnswer]_vars

(***************************************************************************)
(* The engine resumed at a chosen number of solved problems, around the    *)
(* difficulty thresholds, and given the empty input, answers and sums.     *)
(***************************************************************************)
SOLVED_BEFORE == {0, 3, 4, 5, 13, 14, 15, 28, 29, 30}

\* the session a conversation resumes after `solved` problems, with the quiz
\* generated after the last of them current and the badges it earned
SessionAfter(solved) ==
    LET counted == [NewSession EXCEPT !.problems_solved = solved]
    IN  [counted EXCEPT
           !.current_quiz = generate_math_question(
                                [question |-> "2 + 3", answer |-> 5], 4,
                                _get_difficulty_level(counted)),
           !.achievements = check_achievements_all(counted)]

DIFFICULTY_INPUTS ==
    {<<>>,
     <<"5">>,
     <<"8">>,
     <<"7">>,
     <<"4", " ", "+", " ", "4">>}

InitDifficulty ==
    /\ \E solved \in SOLVED_BEFORE : session = SessionAfter(solved)
    /\ quiz_counter = 5
    /\ pending = None
    /\ turn = Turn("init", <<>>, None, <<>>, None, {})
    /\ inputs_seen = 0
    /\ files = [path \in PATHS |-> Absent]
    /\ save = NoSave
    /\ evaluator = NewEvaluator
    /\ executor = NewExecutor
    /\ startup = NotStarted

ProcessDifficulty == ProcessInputAmong(DIFFICULTY_INPUTS)

NextDifficulty == ProcessDifficulty \/ GetPendingResponse

SpecDifficulty == InitDifficulty /\ [][NextDifficulty]_vars

(***************************************************************************)
(* The engine resumed in the middle of a quiz, with the attempts already   *)
(* made on it restored from the snapshot, and given numbers as answers.    *)
(***************************************************************************)
HINT_ANSWERS == {7, 10, 49, 50}

ATTEMPTS_BEFORE == {0, 2}

\* the session a conversation resumes with quiz 5 current, `answer` its
\* stored answer and `attempts` answers already given to it
SessionAt(answer, attempts) ==
    [NewSession EXCEPT
       !.current_quiz = generate_math_question(
                            [question |-> "?", answer |-> answer], 4, 1),
       !.quiz_attempts = [id \in {q \in {5} : attempts > 0} |-> attempts]]

HINT_INPUTS ==
    {<<>>,
     <<"7">>,
     <<"1", "0">>,
     <<"4", "9">>,
     <<"5", "0">>,
     <<"0">>,
     <<"1", "0", "0", "0", "0">>,
     <<"1", "0", "0", "0", "1">>,
     <<"0", "0", "7">>,
     <<"a", "n", "s", ":", " ", "2", "1">>,
     <<"a", "n", "s", ":", "^2">>,
     <<"+", "7">>,
     <<"7", ".", "5">>}

InitHint ==
    /\ \E answer \in HINT_ANSWERS, attempts \in ATTEMPTS_BEFORE :
          session = SessionAt(answer, attempts)
    /\ quiz_counter = 5
    /\ pending = None
    /\ turn = Turn("init", <<>>, None, <<>>, None, {})
    /\ inputs_seen = 0
    /\ files = [path \in PATHS |-> Absent]
    /\ save = NoSave
    /\ evaluator = NewEvaluator
    /\ executor = NewExecutor
    /\ startup = NotStarted

ProcessHint == ProcessInputAmong(HINT_INPUTS)

NextHint == ProcessHint \/ GetPendingResponse

SpecHint == InitHint /\ [][NextHint]_vars

(***************************************************************************)
(* The engine given whole numbers, which the number-facts handler          *)
(* describes (or the quiz handler, as wrong answers to the active quiz).   *)
(***************************************************************************)
TREE_NUMBERS == {1, 2, 3, 4, 6, 9, 15, 25, 49, 97, 100, 7919, 9409, 10000}

ProcessNumber == ProcessInputAmong({NatToStr(number) : number \in TREE_NUMBERS})

NextNumberFacts == ProcessNumber \/ GetPendingResponse

SpecNumberFacts == Init /\ [][NextNumberFacts]_vars

(***************************************************************************)
(* Session snapshots: get_session_state() and restore_session_state().     *)
(* A snapshot is a flat record of plain values: every mapping is written   *)
(* as the list of its entries, the achievement set as a list, a            *)
(* placeholder symbol as its name and an absent quiz as null.              *)
(***************************************************************************)
Null == [null |-> TRUE]

\* a mapping written as its entries <<key, value>>
Entries(map) == {<<key, map[key]>> : key \in DOMAIN map}

\* the mapping read back from its entries
FromEntries(entries) ==
    [key \in {entry[1] : entry \in entries} |->
        (CHOOSE entry \in entries : entry[1] = key)[2]]

\* a set written as a list
RECURSIVE ListOf(_)
ListOf(set) ==
    IF set = {} THEN <<>>
    ELSE LET first == CHOOSE member \in set : TRUE
         IN  <<first>> \o ListOf(set \ {first})

SetOf(list) == {list[i] : i \in 1..Len(list)}

\* a symbols_env value as a plain value: a number, or the name of the
\* placeholder
PlainSymbol(value) ==
    [is_number |-> value.kind = "num", number |-> value.v, repr |-> value.name]

SymbolOf(plain) ==
    IF plain.is_number THEN Number(plain.number) ELSE Placeholder(plain.repr)

\* a snapshot that leaves the attempt counts out
get_session_state_no_attempts(s) ==
    [math_env |-> Entries(s.math_env),
     symbols_env |-> Entries([name \in DOMAIN s.symbols_env |->
                                 PlainSymbol(s.symbols_env[name])]),
     current_quiz |-> IF s.current_quiz = None THEN Null ELSE s.current_quiz,
     quiz_attempts |-> {},
     problems_solved |-> s.problems_solved,
     current_streak |-> s.current_streak,
     achievements |-> ListOf(s.achievements)]

\* KidShellEngine.get_session_state(): Session.to_dict()
get_session_state(s) ==
    [math_env |-> Entries(s.math_env),
     symbols_env |-> Entries([name \in DOMAIN s.symbols_env |->
                                 PlainSymbol(s.symbols_env[name])]),
     current_quiz |-> IF s.current_quiz = None THEN Null ELSE s.current_quiz,
     quiz_attempts |-> Entries(s.quiz_attempts),
     problems_solved |-> s.problems_solved,
     current_streak |-> s.current_streak,
     achievements |-> ListOf(s.achievements)]

\* KidShellEngine.restore_session_state(state): Session.from_dict(state)
restore_session_state(state) ==
    [math_env |-> FromEntries(state.math_env),
     symbols_env |-> LET plain == FromEntries(state.symbols_env)
                     IN  [name \in DOMAIN plain |-> SymbolOf(plain[name])],
     current_quiz |-> IF state.current_quiz = Null THEN None ELSE state.current_quiz,
     quiz_attempts |-> FromEntries(state.quiz_attempts),
     problems_solved |-> state.problems_solved,
     current_streak |-> state.current_streak,
     achievements |-> SetOf(state.achievements)]

\* a fresh engine takes over from a snapshot of the running one, with the
\* same quiz generator
RestoreSessionState ==
    /\ turn.op # "restore_session_state"
    /\ session' = restore_session_state(get_session_state(session))
    /\ pending' = None
    /\ turn' = Turn("restore_session_state", <<>>, None, <<>>, None, {})
    /\ UNCHANGED <<quiz_counter, inputs_seen, files, save, evaluator, executor, startup>>

NextWithRestore == ProcessInput \/ GetPendingResponse \/ RestoreSessionState

SpecWithRestore == Init /\ [][NextWithRestore]_vars

(***************************************************************************)
(* load_persisted_session (core/session_store.py) and main() of the        *)
(* Textual frontend, which starts the engine from what it returns.         *)
(***************************************************************************)
\* what may stand where the session state is kept, besides no file, a
\* truncated text and a written snapshot: a path whose directory denies the
\* search (stat fails with EACCES), a file that denies reading, bytes that
\* are not UTF-8, JSON nested deeper than the parser recurses, a JSON array,
\* and a JSON object Session.from_dict rejects
Unreachable == [kind |-> "unreachable"]

Denied == [kind |-> "denied"]

Undecodable == [kind |-> "undecodable"]

Nested == [kind |-> "nested"]

JsonArray == [kind |-> "array"]

Malformed == [kind |-> "malformed"]

STATE_FILES ==
    {Absent, Unreachable, Denied, Undecodable, Partial, Nested, JsonArray,
     Malformed,
     Complete(get_session_state(NewSession)),
     Complete(get_session_state(ResumedSession))}

\* the outcomes of load_persisted_session: a Session, None, or an exception
Loaded(loaded_session) ==
    [kind |-> "session", session |-> loaded_session, exception |-> ""]

LoadedNone == [kind |-> "none", session |-> NewSession, exception |-> ""]

LoadRaised(exception) ==
    [kind |-> "raised", session |-> NewSession, exception |-> exception]

\* path.exists(): stat, whose ENOENT means no file and whose EACCES is raised
path_exists(file) ==
    IF file.kind = "unreachable" THEN [kind |-> "raise", value |-> FALSE]
    ELSE [kind |-> "ok", value |-> file.kind # "absent"]

\* a load_persisted_session that asks for the file inside its try
load_persisted_session_guarded(file) ==
    IF path_exists(file).kind = "raise" THEN LoadedNone
    ELSE IF ~path_exists(file).value THEN LoadedNone
    ELSE IF file.kind = "denied" THEN LoadedNone
    ELSE IF file.kind \in {"undecodable", "partial"} THEN LoadedNone
    ELSE IF file.kind = "nested" THEN LoadedNone
    ELSE IF file.kind = "array" THEN LoadedNone
    ELSE IF file.kind = "malformed" THEN LoadedNone
    ELSE Loaded(restore_session_state(file.data))

\* load_persisted_session(): exists() is asked outside the try; read_text
\* raises OSError for a file that denies reading and UnicodeDecodeError, a
\* ValueError, for bytes that are not UTF-8; json.loads raises
\* JSONDecodeError, a ValueError, for a text that is not JSON and
\* RecursionError, which is neither, for JSON nested too deep
load_persisted_session(file) ==
    IF path_exists(file).kind = "raise" THEN LoadRaised("PermissionError")
    ELSE IF ~path_exists(file).value THEN LoadedNone
    ELSE IF file.kind = "denied" THEN LoadedNone
    ELSE IF file.kind \in {"undecodable", "partial"} THEN LoadedNone
    ELSE IF file.kind = "nested" THEN LoadRaised("RecursionError")
    ELSE IF file.kind = "array" THEN LoadedNone
    ELSE IF file.kind = "malformed" THEN LoadedNone
    ELSE Loaded(restore_session_state(file.data))

\* main(start_new): the session is None or what load_persisted_session
\* returns, and the engine of the app starts from it or from Session(); an
\* exception of the load leaves main before there is an app
Main ==
    /\ startup.op = "none"
    /\ \E start_new \in BOOLEAN :
        \E loaded \in {IF start_new THEN LoadedNone
                       ELSE load_persisted_session(files[SESSION_STATE_PATH])} :
            /\ startup' = [op |-> "main", start_new |-> start_new,
                           loaded |-> loaded.kind, exception |-> loaded.exception,
                           restored |-> loaded.kind = "session"]
            /\ session' = IF loaded.kind = "session" THEN loaded.session
                          ELSE NewSession
            /\ quiz_counter' = IF loaded.kind = "session"
                                    /\ loaded.session.current_quiz # None
                                 THEN loaded.session.current_quiz.id
                                 ELSE 0
    /\ pending' = None
    /\ turn' = Turn("init", <<>>, None, <<>>, None, {})
    /\ inputs_seen' = 0
    /\ UNCHANGED <<files, save, evaluator, executor>>

\* an input to the app that main started
StartedInput ==
    /\ startup.op = "main"
    /\ startup.loaded # "raised"
    /\ ProcessAnswer

InitStartup == \E state_file \in STATE_FILES : InitWith(state_file)

NextStartup == Main \/ StartedInput

SpecStartup == InitStartup /\ [][NextStartup]_vars

(***************************************************************************)
(* Persistence: save_persisted_session (session_store.py) and save_profile *)
(* (profile.py), one action per file-system call.  Every call may fail     *)
(* with OSError and the process may die between any two calls.             *)
(***************************************************************************)
engine_vars == <<session, pending, quiz_counter, turn, inputs_seen, evaluator, executor,
                 startup>>

Saving == save.pc \in {"mkdir", "open", "write", "replace"}

\* the caller asks for a quiz between two saves: process_input("")
ProcessEmptyInput ==
    /\ save.pc = "idle"
    /\ inputs_seen < MaxInputs
    /\ inputs_seen' = inputs_seen + 1
    /\ \E item \in QuizPool : HandleEmptyInput(item)
    /\ UNCHANGED <<files, save, evaluator, executor, startup>>

\* save_persisted_session(session) is called
SaveSessionBegin ==
    /\ save.pc = "idle"
    /\ save' = [pc |-> "mkdir", which |-> "session",
                payload |-> get_session_state(session),
                before |-> files[SESSION_STATE_PATH], result |-> "none"]
    /\ UNCHANGED <<engine_vars, files>>

\* save_profile(profile_path, profile) is called
SaveProfileBegin ==
    /\ save.pc = "idle"
    /\ \E profile \in PROFILES :
          save' = [pc |-> "mkdir", which |-> "profile", payload |-> profile,
                   before |-> files[PROFILE_PATH], result |-> "none"]
    /\ UNCHANGED <<engine_vars, files>>

\* path.parent.mkdir(parents=True, exist_ok=True)
SaveMkdir ==
    /\ save.pc = "mkdir"
    /\ save' = [save EXCEPT !.pc = "open"]
    /\ UNCHANGED <<engine_vars, files>>

\* temp_path.write_text: the file is opened for writing, which empties it
SaveOpen ==
    /\ save.pc = "open"
    /\ files' = [files EXCEPT ![temp_path(save.which)] = Partial]
    /\ save' = [save EXCEPT !.pc = "write"]
    /\ UNCHANGED engine_vars

\* temp_path.write_text: the document is written and the file closed
SaveWrite ==
    /\ save.pc = "write"
    /\ files' = [files EXCEPT ![temp_path(save.which)] = Complete(save.payload)]
    /\ save' = [save EXCEPT !.pc = "replace"]
    /\ UNCHANGED engine_vars

\* temp_path.replace(path): the rename is one step of the file system
SaveReplace ==
    /\ save.pc = "replace"
    /\ files' = [path \in PATHS |->
                    IF path = target_path(save.which)
                      THEN files[temp_path(save.which)]
                    ELSE IF path = temp_path(save.which) THEN Absent
                    ELSE files[path]]
    /\ save' = [save EXCEPT !.pc = "idle",
                            !.result = IF save.which = "session" THEN "True"
                                       ELSE "None"]
    /\ UNCHANGED engine_vars

\* the pending call raises OSError: save_persisted_session returns False,
\* save_profile lets the error through
SaveOSError ==
    /\ Saving
    /\ save' = [save EXCEPT !.pc = "idle",
                            !.result = IF save.which = "session" THEN "False"
                                       ELSE "OSError"]
    /\ UNCHANGED <<engine_vars, files>>

\* the process dies before the pending call
Crash ==
    /\ Saving
    /\ save' = [save EXCEPT !.pc = "crashed"]
    /\ UNCHANGED <<engine_vars, files>>

NextWithSave ==
    \/ ProcessEmptyInput
    \/ SaveSessionBegin
    \/ SaveProfileBegin
    \/ SaveMkdir
    \/ SaveOpen
    \/ SaveWrite
    \/ SaveReplace
    \/ SaveOSError
    \/ Crash

SpecWithSave == Init /\ [][NextWithSave]_vars

(***************************************************************************)
(* One SafeMathEvaluator instance called again and again: evaluate with    *)
(* its interpreter cache (safe_math.py).                                   *)
(***************************************************************************)
\* an expression of more than MAX_STRING_LENGTH characters that holds __
LongDunder == [i \in 1..MAX_STRING_LENGTH |-> "1"] \o <<"_", "_">>

\* an expression n ** 101 of more than MAX_STRING_LENGTH characters
LongPower == [i \in 1..MAX_STRING_LENGTH |-> "1"] \o <<" ", "*", "*", " ", "1", "0", "1">>

\* the expressions the evaluator is called with
EXPRESSIONS ==
    {<<"I", "M", "P", "O", "R", "T", " ", "o", "s">>,
     <<"E", "x", "E", "c", "(", "1", ")">>,
     <<"o", "p", "e", "n">>,
     <<"r", "a", "w", "_", "i", "n", "p", "u", "t">>,
     <<"x", "_", "_", "y">>,
     <<"i", "m", "p", "o", "r", "t", "a", "n", "t", " ", "+", " ", "1">>,
     <<"i", "f", " ", "_", "_", "x">>,
     <<"1", " ", "i", "f", " ", "x", " ", "e", "l", "s", "e", " ", "2">>,
     <<"I", "F">>,
     <<"i", "f", "f", "y", " ", "+", " ", "1">>,
     <<"2", " ", "*", "*", " ", "1", "0", "1">>,
     <<"2", " ", "*", "*", " ", "1", "0", "0", "0">>,
     <<"2", " ", "*", "*", " ", "-", "1", "0", "1">>,
     <<"1", " ", "*", "*", " ", "1", "0", "0">>,
     <<"1", " ", "*", "*", " ", "-", "1", "0", "0">>,
     <<"2", " ", "+">>,
     <<>>,
     LongDunder, LongPower}

\* a cache key that leaves the expression out
_build_cache_key_of_inputs(expression, inputs) == <<<<>>, inputs>>

\* (expression, the sorted items of inputs)
_build_cache_key(expression, inputs) == <<expression, inputs>>

\* pydantic_monty.Monty(expression, inputs=list(inputs.keys())): the compiled
\* expression with the names it may read
Monty(expression, inputs) == [code |-> expression, inputs |-> DOMAIN inputs]

\* the cache with the interpreter m under cache_key, when it has none there
Cached(cache, cache_key, m) ==
    [key \in DOMAIN cache \cup {cache_key} |->
        IF key \in DOMAIN cache THEN cache[key] ELSE m]

\* self._monty_cache[cache_key] once the call has looked the key up
Interpreter(cache, cache_key, expression, inputs) ==
    IF cache_key \in DOMAIN cache THEN cache[cache_key]
    ELSE Monty(expression, inputs)

\* the call from the cache lookup on: m.run(inputs) and the size checks
Run(m, inputs) == Validated(MontyRun(m.code, inputs))

\* the wordings evaluate looks for in the lowered message of a Monty error
DIVISION_BY_ZERO == <<"d", "i", "v", "i", "s", "i", "o", "n", " ", "b", "y", " ", "z", "e", "r", "o">>

TIME_LIMIT_EXCEEDED == <<"t", "i", "m", "e", " ", "l", "i", "m", "i", "t", " ", "e", "x", "c", "e", "e", "d", "e", "d">>

TIMEOUTERROR == <<"t", "i", "m", "e", "o", "u", "t", "e", "r", "r", "o", "r">>

MEMORY_LIMIT_EXCEEDED == <<"m", "e", "m", "o", "r", "y", " ", "l", "i", "m", "i", "t", " ", "e", "x", "c", "e", "e", "d", "e", "d">>

MEMORYERROR == <<"m", "e", "m", "o", "r", "y", "e", "r", "r", "o", "r">>

\* an exception of the interpreter that escapes evaluate as it is
Escaped(raised) == [kind |-> "raised", value |-> 0, error |-> raised.exception]

\* the except clauses of evaluate that looks for the wordings as they are
\* written, without lowering the message
Normalized_as_worded(raised) ==
    IF raised.exception \in {"MontySyntaxError", "MontyRuntimeError"}
      THEN (IF Contains(raised.message, DIVISION_BY_ZERO)
              THEN Err("Division by zero")
            ELSE IF Contains(raised.message, TIME_LIMIT_EXCEEDED)
                      \/ Contains(raised.message, TIMEOUTERROR)
              THEN Err("Execution timeout")
            ELSE IF Contains(raised.message, MEMORY_LIMIT_EXCEEDED)
                      \/ Contains(raised.message, MEMORYERROR)
              THEN Err("Memory limit exceeded")
            ELSE Err("Invalid expression: " \o Join(raised.message)))
    ELSE IF raised.exception = "ZeroDivisionError" THEN Err("Division by zero")
    ELSE IF raised.exception \in {"ValueError", "TypeError"}
      THEN Err("Math error: " \o Join(raised.message))
    ELSE Escaped(raised)

\* the except clauses of evaluate: the SafeMathError raised for an exception
\* of the interpreter, or the exception itself when no clause names its type
Normalized(raised) ==
    IF raised.exception \in {"MontySyntaxError", "MontyRuntimeError"}
      THEN (IF Contains(Lower(raised.message), DIVISION_BY_ZERO)
              THEN Err("Division by zero")
            ELSE IF Contains(Lower(raised.message), TIME_LIMIT_EXCEEDED)
                      \/ Contains(Lower(raised.message), TIMEOUTERROR)
              THEN Err("Execution timeout")
            ELSE IF Contains(Lower(raised.message), MEMORY_LIMIT_EXCEEDED)
                      \/ Contains(Lower(raised.message), MEMORYERROR)
              THEN Err("Memory limit exceeded")
            ELSE Err("Invalid expression: " \o Join(raised.message)))
    ELSE IF raised.exception = "ZeroDivisionError" THEN Err("Division by zero")
    ELSE IF raised.exception \in {"ValueError", "TypeError"}
      THEN Err("Math error: " \o Join(raised.message))
    ELSE Escaped(raised)

\* the outcome of a call that got to the interpreter: ran is what the model
\* computes for the expression, raised what the interpreter raised beyond it;
\* an expression that does not compile never runs
Outcome(ran, raised) ==
    IF raised.exception = "none" \/ ran = Err("Invalid expression: syntax")
      THEN ran
      ELSE Normalized(raised)

\* the message of the interpreter for a run stopped at its time limit
TIME_LIMIT_RAISED == <<"T", "i", "m", "e", "o", "u", "t", "E", "r", "r", "o", "r", ":", " ", "t", "i", "m", "e", " ", "l", "i", "m", "i", "t", " ", "e", "x", "c", "e", "e", "d", "e", "d">>

\* MAX_DURATION_SECS, the 1.0 second of the class, held in milliseconds
MAX_DURATION_SECS == 1000

\* the milliseconds of a run that would not end
Forever == MAX_DURATION_SECS * 1000

\* the limits evaluate gives every run, with no bound on the duration
ResourceLimits_of_allocations == [max_duration_secs |-> Forever + 1]

\* the limits evaluate gives every run of the interpreter
ResourceLimits == [max_duration_secs |-> MAX_DURATION_SECS]

\* what a run of the interpreter that needs `needed` milliseconds raises
\* under `limits`: the interpreter stops a run that reaches max_duration_secs
\* with its time-limit error, and otherwise the run raises `interruption`
RaisedWithin(limits, needed, interruption) ==
    IF needed > limits.max_duration_secs
      THEN Exception("MontyRuntimeError", TIME_LIMIT_RAISED)
      ELSE interruption

\* the milliseconds a run that needs `needed` takes under `limits`
Elapsed(limits, needed) ==
    IF needed > limits.max_duration_secs THEN limits.max_duration_secs ELSE needed

\* SafeMathEvaluator.evaluate(expression) on the instance, for an expression
\* among `expressions` whose run needs one of `durations` milliseconds and
\* during which the interpreter may raise one of `interruptions`: the
\* expression, the inputs and the outcome of the call, whether it built an
\* interpreter, whether it ran one and the time the run took
EvaluateTimed(expressions, interruptions, durations) ==
    /\ \E expression \in expressions :
        \E passed \in {Prechecked(expression).kind = "ok"} :
        \E cache_key \in {_build_cache_key(expression, evaluator.variables)} :
        \E m \in {Interpreter(evaluator._monty_cache, cache_key, expression,
                              evaluator.variables)} :
        \E ran \in {IF passed THEN Run(m, evaluator.variables)
                               ELSE Prechecked(expression)} :
        \E compiled \in {ran # Err("Invalid expression: syntax")} :
        \E interruption \in interruptions, needed \in durations :
        \E raised \in {RaisedWithin(ResourceLimits, needed, interruption)} :
            evaluator' =
                [variables |-> evaluator.variables,
                 _monty_cache |-> IF passed /\ compiled
                                    THEN Cached(evaluator._monty_cache, cache_key, m)
                                    ELSE evaluator._monty_cache,
                 evaluated |-> TRUE,
                 expression |-> expression,
                 inputs |-> evaluator.variables,
                 raised |-> IF passed /\ compiled THEN raised ELSE NoError,
                 needed |-> IF passed /\ compiled THEN needed ELSE 0,
                 elapsed |-> IF passed /\ compiled
                               THEN Elapsed(ResourceLimits, needed) ELSE 0,
                 outcome |-> IF passed THEN Outcome(ran, raised) ELSE ran,
                 created |-> passed /\ cache_key \notin DOMAIN evaluator._monty_cache,
                 ran |-> passed /\ compiled]
    /\ UNCHANGED <<session, pending, quiz_counter, turn, inputs_seen, files, save,
                   executor, startup>>

\* the call when the time the run needs is of no account
EvaluateWith(expressions, interruptions) ==
    EvaluateTimed(expressions, interruptions, {0})

\* the call when the interpreter raises nothing but what the model computes
EvaluateAmong(expressions) == EvaluateWith(expressions, {NoError})

Evaluate == EvaluateAmong(EXPRESSIONS)

NextEvaluate == Evaluate

SpecEvaluate == Init /\ [][NextEvaluate]_vars

(***************************************************************************)
(* The same instance called again after its variables were given other     *)
(* values.                                                                 *)
(***************************************************************************)
VARIABLE_EXPRESSIONS ==
    {<<"x", " ", "+", " ", "5">>,
     <<"x", " ", "*", " ", "2">>,
     <<"2", " ", "+", " ", "3">>,
     <<"x", " ", "+">>,
     <<"i", "m", "p", "o", "r", "t", " ", "x">>}

VARIABLE_VALUES == {7, 10}

EvaluateVariable == EvaluateAmong(VARIABLE_EXPRESSIONS)

\* evaluator.variables[name] = value, between two calls
SetVariable ==
    /\ \E name \in DOMAIN evaluator.variables :
        \E value \in VARIABLE_VALUES \ {evaluator.variables[name]} :
            evaluator' =
                [evaluator EXCEPT !.variables = [evaluator.variables EXCEPT ![name] = value]]
    /\ UNCHANGED <<session, pending, quiz_counter, turn, inputs_seen, files, save,
                   executor, startup>>

NextEvaluateVariable == EvaluateVariable \/ SetVariable

SpecEvaluateVariable == Init /\ [][NextEvaluateVariable]_vars

(***************************************************************************)
(* The same instance called with expressions whose values are near the     *)
(* limits on a returned number and a returned string.                      *)
(***************************************************************************)
TenToThe30 == <<"1", "0", " ", "*", "*", " ", "3", "0">>

AThousandTimes == <<"'", "a", "'", " ", "*", " ", "1", "0", "0", "0">>

RESULT_EXPRESSIONS ==
    {TenToThe30,
     <<"-">> \o TenToThe30,
     TenToThe30 \o <<" ", "+", " ", "1">>,
     <<"0", " ", "-", " ">> \o TenToThe30 \o <<" ", "-", " ", "1">>,
     <<"1", "0", " ", "*", "*", " ", "1", "0", "0">>,
     AThousandTimes,
     AThousandTimes \o <<" ", "+", " ", "'", "b", "'">>}

EvaluateResult == EvaluateAmong(RESULT_EXPRESSIONS)

NextEvaluateResult == EvaluateResult

SpecEvaluateResult == Init /\ [][NextEvaluateResult]_vars

(***************************************************************************)
(* The same instance when the interpreter raises during the run: for a     *)
(* resource limit, for a fault of its own, or an exception of the host.    *)
(***************************************************************************)
INTERRUPTIONS ==
    {NoError,
     Exception("MontyRuntimeError", <<"Z", "e", "r", "o", "D", "i", "v", "i", "s", "i", "o", "n", "E", "r", "r", "o", "r", ":", " ", "D", "i", "v", "i", "s", "i", "o", "n", " ", "B", "y", " ", "Z", "e", "r", "o">>),
     Exception("MontyRuntimeError", <<"T", "i", "m", "e", "o", "u", "t", "E", "r", "r", "o", "r", ":", " ", "T", "i", "m", "e", " ", "L", "i", "m", "i", "t", " ", "E", "x", "c", "e", "e", "d", "e", "d">>),
     Exception("MontyRuntimeError", <<"M", "e", "m", "o", "r", "y", "E", "r", "r", "o", "r">>),
     Exception("MontyRuntimeError", <<"R", "e", "c", "u", "r", "s", "i", "o", "n", "E", "r", "r", "o", "r">>),
     Exception("MontySyntaxError", <<"i", "n", "v", "a", "l", "i", "d", " ", "s", "y", "n", "t", "a", "x">>),
     Exception("ValueError", <<"m", "a", "t", "h", " ", "d", "o", "m", "a", "i", "n", " ", "e", "r", "r", "o", "r">>),
     Exception("TypeError", <<"n", " ", "m", "u", "s", "t", " ", "b", "e", " ", "a", "n", " ", "i", "n", "t", "e", "g", "e", "r">>),
     Exception("ZeroDivisionError", <<"f", "l", "o", "a", "t", " ", "d", "i", "v", "i", "s", "i", "o", "n">>),
     Exception("MemoryError", <<>>),
     Exception("TimeoutError", <<>>)}

INTERRUPTED_EXPRESSIONS ==
    {<<"x", " ", "+", " ", "5">>,
     <<"x", " ", "/", " ", "0">>,
     <<"2", " ", "+">>,
     <<" ">>,
     <<"i", "m", "p", "o", "r", "t", " ", "x">>,
     <<"i", "f", " ", "x">>,
     <<"2", " ", "*", "*", " ", "1", "0", "1">>,
     LongPower,
     TenToThe30 \o <<" ", "+", " ", "1">>,
     AThousandTimes \o <<" ", "+", " ", "'", "b", "'">>}

EvaluateInterrupted == EvaluateWith(INTERRUPTED_EXPRESSIONS, INTERRUPTIONS)

NextEvaluateInterrupted == EvaluateInterrupted

SpecEvaluateInterrupted == Init /\ [][NextEvaluateInterrupted]_vars

(***************************************************************************)
(* The same instance when the runs take time: the milliseconds a run needs *)
(* are drawn from DURATIONS, one of which is the run that would not end.   *)
(***************************************************************************)
DURATIONS == {0, 400, MAX_DURATION_SECS, MAX_DURATION_SECS + 1, Forever}

EvaluateWithin == EvaluateTimed(VARIABLE_EXPRESSIONS, {NoError}, DURATIONS)

NextEvaluateWithin == EvaluateWithin \/ SetVariable

SpecEvaluateWithin == Init /\ [][NextEvaluateWithin]_vars

(***************************************************************************)
(* The same instance called with expressions that fail several pre-checks  *)
(* at once, next to some that fail one or none.                            *)
(***************************************************************************)
\* more than MAX_STRING_LENGTH spaces
LongBlank == [i \in 1..(MAX_STRING_LENGTH + 1) |-> " "]

\* an import of more than MAX_STRING_LENGTH characters
LongImport == <<"i", "m", "p", "o", "r", "t", " ">> \o [i \in 1..MAX_STRING_LENGTH |-> "x"]

ORDER_EXPRESSIONS ==
    {<<" ">>,
     LongBlank,
     LongImport,
     LongDunder,
     LongPower,
     <<"g", "e", "t", "a", "t", "t", "r", "(", "o", "b", "j", "e", "c", "t", ",", " ", "'", "_", "_", "c", "l", "a", "s", "s", "_", "_", "'", ")">>,
     <<"i", "m", "p", "o", "r", "t", " ", "o", "s", " ", "i", "f", " ", "x">>,
     <<"o", "p", "e", "n", "(", "e", "v", "a", "l", ")">>,
     <<"i", "f", " ", "2", " ", "*", "*", " ", "1", "0", "1">>,
     <<"i", "f", " ", "_", "_", "x">>,
     <<"2", " ", "*", "*", " ", "1", "0", "1">>,
     <<"2", " ", "*", "*", " ", "1", "0", "0">>,
     <<"x", " ", "+", " ", "5">>}

EvaluateOrdered == EvaluateAmong(ORDER_EXPRESSIONS)

NextEvaluateOrdered == EvaluateOrdered \/ SetVariable

SpecEvaluateOrdered == Init /\ [][NextEvaluateOrdered]_vars

(***************************************************************************)
(* SecureExecutor (cli/sandbox.py): execute and reset_limits.              *)
(***************************************************************************)
\* MAX_EXECUTIONS of the executor under test
MAX_EXECUTIONS == 3

\* the calls made beyond the limit before a reset
MaxRefused == 2

MAX_CODE_LENGTH == MAX_STRING_LENGTH

\* re.match(rf"^\s*(?:{keywords})\b", code, flags=re.IGNORECASE)
_contains_blocked_statement(code) ==
    \E i \in 1..Len(BLOCKED_CONTROL_FLOW_KEYWORDS) :
        /\ LStripIndex(code) + Len(BLOCKED_CONTROL_FLOW_KEYWORDS[i]) - 1 <= Len(code)
        /\ WordAt(Lower(BLOCKED_CONTROL_FLOW_KEYWORDS[i]), Lower(code),
                  LStripIndex(code))

\* the checks of execute that come before the rate limit
StaticCheck(code) ==
    IF Len(Strip(code)) = 0 THEN Err("Empty code not allowed")
    ELSE IF Len(code) > MAX_CODE_LENGTH THEN Err("Code too long")
    ELSE IF _find_blocked_pattern(code).found
      THEN Err("Unsafe pattern: " \o Join(_find_blocked_pattern(code).token))
    ELSE IF _contains_blocked_statement(code)
      THEN Err("Complex control flow not allowed")
    ELSE Ok(0)

\* the result of execute: the value of the run as it is, or the SecurityError
\* of the except clauses for an error of the run
ExecutionError(result) ==
    IF result.kind = "ok"
      THEN (IF result.value.type = "str" THEN OkStr(result.value.items)
            ELSE IF result.value.type = "int" THEN Ok(result.value.n)
            ELSE OkLong(result.value.n, result.value.items))
    ELSE IF result.error \in {"Division by zero", "Memory limit exceeded"}
      THEN Err(result.error)
    ELSE IF result.error = "Invalid expression: syntax"
      THEN Err("Execution error: syntax")
    ELSE IF result.error = "Invalid expression: NameError: name is not defined"
      THEN Err("Execution error: NameError: name is not defined")
    ELSE Err("Execution error: TypeError: unsupported operand type(s)")

\* the call once the static checks and the rate limit are passed
ExecutionRun(e, code, cache_key, result) ==
    [execution_count |-> e.execution_count + 1,
     _monty_cache |-> IF result.kind = "error" /\ result.error = "Invalid expression: syntax"
                        THEN e._monty_cache
                        ELSE Cached(e._monty_cache, cache_key,
                                    Monty(code, EVALUATOR_VARIABLES)),
     op |-> "execute", code |-> code, outcome |-> ExecutionError(result),
     ran |-> TRUE, runs |-> e.runs + 1, exhausted |-> e.exhausted]

\* an execute that counts the call before its static checks
Executed_counting_every_call(e, code) ==
    IF e.execution_count + 1 > MAX_EXECUTIONS
      THEN [e EXCEPT !.execution_count = @ + 1, !.op = "execute", !.code = code,
                     !.outcome = Err("Execution limit exceeded"), !.ran = FALSE,
                     !.exhausted = TRUE]
    ELSE IF StaticCheck(code).kind = "error"
      THEN [e EXCEPT !.execution_count = @ + 1, !.op = "execute", !.code = code,
                     !.outcome = StaticCheck(code), !.ran = FALSE]
    ELSE ExecutionRun(e, code, _build_cache_key(code, EVALUATOR_VARIABLES),
                      MontyRun(code, EVALUATOR_VARIABLES))

\* SecureExecutor.execute(code): the executor after the call
Executed(e, code) ==
    IF StaticCheck(code).kind = "error"
      THEN [e EXCEPT !.op = "execute", !.code = code,
                     !.outcome = StaticCheck(code), !.ran = FALSE]
    ELSE IF e.execution_count + 1 > MAX_EXECUTIONS
      THEN [e EXCEPT !.execution_count = @ + 1, !.op = "execute", !.code = code,
                     !.outcome = Err("Execution limit exceeded"), !.ran = FALSE,
                     !.exhausted = TRUE]
    ELSE ExecutionRun(e, code, _build_cache_key(code, EVALUATOR_VARIABLES),
                      MontyRun(code, EVALUATOR_VARIABLES))

\* the code the executor is given
EXECUTOR_CODES ==
    {<<"1", " ", "+", " ", "1">>,
     <<"1", " ", "/", " ", "0">>,
     <<"2", " ", "+">>,
     <<" ">>,
     <<"i", "m", "p", "o", "r", "t", " ", "x">>,
     <<"i", "f", " ", "x">>,
     <<"x", " ", "i", "f", " ", "x">>,
     LongDunder}

Execute ==
    /\ executor.execution_count < MAX_EXECUTIONS + MaxRefused
    /\ \E code \in EXECUTOR_CODES : executor' = Executed(executor, code)
    /\ UNCHANGED <<session, pending, quiz_counter, turn, inputs_seen, files, save,
                   evaluator, startup>>

\* SecureExecutor.reset_limits()
ResetLimits ==
    /\ executor' = [executor EXCEPT !.execution_count = 0, !.op = "reset_limits",
                                    !.code = <<>>, !.outcome = Ok(0),
                                    !.ran = FALSE, !.runs = 0]
    /\ UNCHANGED <<session, pending, quiz_counter, turn, inputs_seen, files, save,
                   evaluator, startup>>

NextExecute == Execute \/ ResetLimits

SpecExecute == Init /\ [][NextExecute]_vars


(***************************************************************************)
(* Vocabulary of the properties.                                           *)
(***************************************************************************)
RESPONSE_TYPES ==
    {"MATH_RESULT", "TREE_DISPLAY", "QUIZ", "ACHIEVEMENT", "SYMBOL_RESULT",
     "EMOJI", "COLOR", "LOOP_RESULT", "ERROR", "TEXT"}

\* this step is a process_input call with a non-empty text
TextTurn == inputs_seen' = inputs_seen + 1 /\ Len(turn'.input) > 0

\* this step is a get_pending_response call
PendingRead == turn'.op = "get_pending_response" /\ inputs_seen' = inputs_seen

QuizActive == session.current_quiz # None

\* a bare number, or a text that starts with answer: or ans:
AnswerShaped(text) ==
    ANSWER_PATTERN(text) \/ StartsWith(text, AnswerPrefix) \/ StartsWith(text, AnsPrefix)

\* this step submits an answer to the active quiz
AnswerTurn == TextTurn /\ QuizActive /\ AnswerShaped(turn'.input)

WrongAnswerTurn ==
    AnswerTurn /\ ~check_answer(session.current_quiz, ExtractAnswer(turn'.input))

CorrectAnswerTurn ==
    AnswerTurn /\ check_answer(session.current_quiz, ExtractAnswer(turn'.input))

AttemptsOf(s, id) == Get(s.quiz_attempts, id, 0)

\* the badges the response of the last call reports as newly unlocked
Reported(t) ==
    IF t.returned.type = "ACHIEVEMENT" THEN t.returned.achievements ELSE {}

(***************************************************************************)
(* C1: every wrong answer to the active quiz (bare number or answer:/ans:  *)
(* form) adds exactly 1 to quiz_attempts of that quiz, leaves              *)
(* current_streak at 0, leaves problems_solved unchanged and keeps the     *)
(* same quiz current.                                                      *)
(***************************************************************************)
C1_WrongAnswerEffects ==
    [][WrongAnswerTurn =>
         /\ AttemptsOf(session', session.current_quiz.id)
              = AttemptsOf(session, session.current_quiz.id) + 1
         /\ session'.current_streak = 0
         /\ session'.problems_solved = session.problems_solved
         /\ session'.current_quiz = session.current_quiz]_vars

\* the last turn was a second or later wrong answer to the quiz still current
C1_Witness ==
    /\ turn.op = "process_input"
    /\ QuizActive
    /\ AnswerShaped(turn.input)
    /\ turn.handled.type = "QUIZ" /\ ~turn.handled.correct
    /\ turn.handled.quiz = session.current_quiz
    /\ AttemptsOf(session, session.current_quiz.id) >= 2
    /\ session.current_streak = 0

(***************************************************************************)
(* C2: when a quiz that has already received at least one wrong answer     *)
(* receives its first correct answer, that turn adds exactly 1 to          *)
(* problems_solved, leaves current_streak at 1 and makes a quiz with a     *)
(* different id current.                                                   *)
(***************************************************************************)
C2_FirstCorrectAfterWrong ==
    [][(CorrectAnswerTurn /\ AttemptsOf(session, session.current_quiz.id) >= 1) =>
         /\ session'.problems_solved = session.problems_solved + 1
         /\ session'.current_streak = 1
         /\ session'.current_quiz # None
         /\ session'.current_quiz.id # session.current_quiz.id]_vars

(***************************************************************************)
(* C3: every correct quiz answer ends with a newly generated quiz current, *)
(* and the quiz-advance response (returned, or queued behind an            *)
(* achievement) carries the solved quiz with its question and answer, a    *)
(* next_quiz equal to the new current_quiz, and streak/total_solved equal  *)
(* to the session's counters after the increment.                          *)
(***************************************************************************)
C3_CorrectAnswerAdvances ==
    [][CorrectAnswerTurn =>
         /\ session'.current_quiz # None
         /\ session'.current_quiz.id > quiz_counter
         /\ turn'.handled.type = "QUIZ" /\ turn'.handled.correct
         /\ turn'.handled.quiz = session.current_quiz
         /\ turn'.handled.question = session.current_quiz.question
         /\ turn'.handled.answer = session.current_quiz.answer
         /\ turn'.handled.next_quiz = session'.current_quiz
         /\ turn'.handled.streak = session'.current_streak
         /\ turn'.handled.total_solved = session'.problems_solved
         /\ session'.problems_solved = session.problems_solved + 1
         /\ session'.current_streak = session.current_streak + 1
         /\ (turn'.returned = turn'.handled \/ pending' = turn'.handled)]_vars

\* the last turn solved a quiz and the response carries its successor
C3_Witness ==
    /\ turn.op = "process_input"
    /\ turn.returned.type = "QUIZ"
    /\ "next_quiz" \in DOMAIN turn.returned
    /\ turn.returned.next_quiz = session.current_quiz
    /\ turn.returned.quiz.id # session.current_quiz.id
    /\ turn.returned.total_solved = session.problems_solved

(***************************************************************************)
(* C4: when a correct answer newly unlocks at least one achievement,       *)
(* process_input returns an ACHIEVEMENT response listing exactly the newly *)
(* unlocked badges with total_solved, the quiz response (correct, with     *)
(* next_quiz) waits in the pending slot while current_quiz is already that *)
(* next quiz, and the get_pending_response call that follows returns it.   *)
(***************************************************************************)
C4_AchievementThenQuiz ==
    [][/\ (CorrectAnswerTurn /\ session'.achievements # session.achievements) =>
            /\ turn'.returned.type = "ACHIEVEMENT"
            /\ turn'.returned.achievements
                 = session'.achievements \ session.achievements
            /\ turn'.returned.total_solved = session'.problems_solved
            /\ pending' # None
            /\ pending'.type = "QUIZ"
            /\ pending'.correct
            /\ pending'.quiz = session.current_quiz
            /\ pending'.next_quiz = session'.current_quiz
       /\ (PendingRead /\ turn.op = "process_input" /\ turn.unlocked # {}) =>
            /\ turn'.returned = turn.handled
            /\ turn'.returned.next_quiz = session'.current_quiz]_vars

\* the quiz response queued behind an achievement has just been read
C4_Witness ==
    /\ turn.op = "get_pending_response"
    /\ turn.returned # None
    /\ turn.returned.type = "QUIZ"
    /\ turn.returned.next_quiz = session.current_quiz
    /\ session.achievements # {}
    /\ pending = None

C6_AchievementsIdempotent ==
    /\ [][/\ session.achievements \subseteq session'.achievements
          /\ inputs_seen' = inputs_seen + 1 =>
               /\ Reported(turn') \cap session.achievements = {}
               /\ Reported(turn') = session'.achievements \ session.achievements]_vars
    /\ [](turn.op = "process_input" /\ turn.handled # None
            /\ IsCorrectAnswer(turn.handled)
          => check_achievements(session) = {})

\* a correct answer given while a badge was held and still earned, reported
\* as an ordinary quiz response
C6_Witness ==
    /\ turn.op = "process_input"
    /\ turn.returned.type = "QUIZ"
    /\ IsCorrectAnswer(turn.returned)
    /\ "first_five" \in session.achievements
    /\ BadgeEarned("first_five", session)

(***************************************************************************)
(* C7: the dispatcher consults the handlers in the fixed priority order,   *)
(* calls handle on the first handler whose can_handle is true, goes on     *)
(* with the handlers after it (never an earlier one, never the same one)   *)
(* when that handler signals try-next, and returns exactly one Response.   *)
(***************************************************************************)
C7_PriorityOrder ==
    [][TextTurn =>
         /\ Len(turn'.trace) \in 1..Len(HANDLERS)
         /\ \A k \in 1..Len(turn'.trace) :
              /\ turn'.trace[k].handler = HANDLERS[k]
              /\ turn'.trace[k].verdict = "declined"
                   <=> /\ CanHandle(HANDLERS[k], turn'.input, session).kind = "ok"
                       /\ ~CanHandle(HANDLERS[k], turn'.input, session).value
              /\ k < Len(turn'.trace) =>
                   turn'.trace[k].verdict \in {"declined", "trynext"}
         /\ turn'.trace[Len(turn'.trace)].verdict \in {"declined", "trynext"} =>
              Len(turn'.trace) = Len(HANDLERS)
         /\ turn'.returned.type \in RESPONSE_TYPES]_vars

\* a handler signalled try-next and a later handler produced the response
C7_Witness ==
    /\ turn.op = "process_input"
    /\ \E k \in 1..Len(turn.trace) :
         /\ turn.trace[k].verdict = "trynext"
         /\ k < Len(turn.trace)
         /\ turn.trace[Len(turn.trace)].verdict = "response"

(***************************************************************************)
(* C8: process_input never raises: an exception raised inside can_handle   *)
(* or handle comes back as a Response, and an input no handler resolves    *)
(* comes back as an ERROR response.                                        *)
(***************************************************************************)
C8_NeverRaises ==
    turn.op = "process_input" =>
      /\ turn.returned.type \in RESPONSE_TYPES
      /\ (\E k \in 1..Len(turn.trace) : turn.trace[k].verdict = "raise") =>
             turn.returned.type = "ERROR"
      /\ (/\ Len(turn.input) > 0
          /\ \A k \in 1..Len(turn.trace) :
                turn.trace[k].verdict \in {"declined", "trynext"}) =>
             turn.returned.type = "ERROR"

\* a handler raised on the last input and the caller got an ERROR response
C8_Witness ==
    /\ turn.op = "process_input"
    /\ Len(turn.trace) > 0
    /\ turn.trace[Len(turn.trace)].verdict = "raise"
    /\ turn.returned.type = "ERROR"

(***************************************************************************)
(* C9: while a quiz is active every bare-number input and every input in   *)
(* answer:/ans: form is handled by the quiz handler and by no other        *)
(* handler; while no quiz is active the quiz handler handles no input.     *)
(***************************************************************************)
C9_QuizHandlerBinding ==
    [][TextTurn =>
         /\ (QuizActive /\ AnswerShaped(turn'.input)) =>
              /\ Len(turn'.trace) = 1
              /\ turn'.trace[1].handler = "quiz"
              /\ turn'.trace[1].verdict \in {"response", "raise"}
         /\ ~QuizActive =>
              \A k \in 1..Len(turn'.trace) :
                 turn'.trace[k].handler = "quiz" => turn'.trace[k].verdict = "declined"]_vars

\* an answer: input was taken by the quiz handler alone
C9_Witness ==
    /\ turn.op = "process_input"
    /\ StartsWith(turn.input, AnswerPrefix)
    /\ turn.trace = <<Step("quiz", "response")>>
    /\ turn.returned.type \in {"QUIZ", "ACHIEVEMENT"}

(***************************************************************************)
(* C10: while a quiz is active an input that is not answer-shaped (loop    *)
(* syntax, a math expression, a word) is declined by the quiz handler,     *)
(* goes to the other handlers, and leaves current_quiz and quiz_attempts   *)
(* unchanged.                                                              *)
(***************************************************************************)
C10_OtherInputKeepsQuiz ==
    [][(TextTurn /\ QuizActive /\ ~AnswerShaped(turn'.input)) =>
         /\ turn'.trace[1] = Step("quiz", "declined")
         /\ \A k \in 2..Len(turn'.trace) : turn'.trace[k].handler # "quiz"
         /\ session'.current_quiz = session.current_quiz
         /\ session'.quiz_attempts = session.quiz_attempts]_vars

\* a math expression whose value is the quiz answer was evaluated by the
\* math handler and the quiz is still the current one, with its attempts
C10_Witness ==
    /\ turn.op = "process_input"
    /\ turn.returned.type = "MATH_RESULT"
    /\ QuizActive
    /\ turn.returned.result = session.current_quiz.answer
    /\ AttemptsOf(session, session.current_quiz.id) >= 1

\* text equals some custom-data key, exactly or ignoring case
MatchesCustomKey(text) ==
    \E i \in 1..Len(CUSTOM_DATA) : Lower(CUSTOM_DATA[i].key) = Lower(text)

\* response carries the value custom data holds for text: the value of the
\* exactly equal key when there is one, else of a key equal ignoring case
IsCustomValueOf(response, text) ==
    /\ response.type = "TEXT"
    /\ "source" \in DOMAIN response
    /\ response.source = "custom_data"
    /\ \A i \in 1..Len(CUSTOM_DATA) :
          CUSTOM_DATA[i].key = text => response.content = CUSTOM_DATA[i].value
    /\ \E i \in 1..Len(CUSTOM_DATA) :
          /\ Lower(CUSTOM_DATA[i].key) = Lower(text)
          /\ response.content = CUSTOM_DATA[i].value

(***************************************************************************)
(* C11: at every turn of any session an input that matches a custom-data   *)
(* key returns the TEXT response with that key's value, the exactly equal  *)
(* key before a key equal only ignoring case, whatever turns came before.  *)
(***************************************************************************)
C11_CustomDataAlways ==
    [][(TextTurn /\ MatchesCustomKey(turn'.input)) =>
          IsCustomValueOf(turn'.returned, turn'.input)]_vars

(***************************************************************************)
(* C11, amended: an input that matches a custom-data key, is not taken as  *)
(* a quiz answer and is not a name bound in math_env returns the TEXT      *)
(* response with that key's value, the exactly equal key before a key      *)
(* equal only ignoring case; the quiz handler and the environment lookup   *)
(* decline it and no later handler is consulted.  A name bound by an       *)
(* earlier assignment shadows the custom-data key of the same spelling.    *)
(***************************************************************************)
C11_CustomDataUnlessShadowed ==
    [][(/\ TextTurn
        /\ MatchesCustomKey(turn'.input)
        /\ ~(QuizActive /\ AnswerShaped(turn'.input))
        /\ Join(turn'.input) \notin DOMAIN session.math_env) =>
          /\ IsCustomValueOf(turn'.returned, turn'.input)
          /\ turn'.trace = <<Step("quiz", "declined"), Step("math_lookup", "declined"),
                             Step("custom_data", "response")>>
          /\ session' = session]_vars

\* a key present in two letter cases was asked for in its lower-case spelling
\* and the exactly equal key answered, after an earlier turn of another kind
C11_Witness ==
    /\ turn.op = "process_input"
    /\ turn.input = <<"b", "l", "u", "e">>
    /\ turn.returned.type = "TEXT"
    /\ turn.returned.content = "ocean"
    /\ inputs_seen >= 2

\* what the claim expects of an operator-leading text: the value of
\* "<last_number> <text>" in the numeric environment
Continued(text, s) ==
    evaluate(StrOfInt(Get(s.math_env, "last_number", 0)) \o <<" ">> \o text, s.math_env)

(***************************************************************************)
(* C12: an input that begins with an operator and is not intercepted as a  *)
(* quiz answer is evaluated as "<last_number> <input>"; when that          *)
(* calculation succeeds the response is the MATH_RESULT with its value and *)
(* last_number equals that value afterwards.                               *)
(***************************************************************************)
C12_OperatorLeadingContinues ==
    [][(/\ TextTurn
        /\ turn'.input[1] \in MathOperators
        /\ ~(QuizActive /\ AnswerShaped(turn'.input))
        /\ Continued(turn'.input, session).kind = "ok") =>
          /\ turn'.returned.type = "MATH_RESULT"
          /\ turn'.returned.result = Continued(turn'.input, session).value
          /\ session'.math_env["last_number"] = Continued(turn'.input, session).value]_vars

\* the response reports an assignment: the symbol handler's "assigned"
\* result or the calculator's "name = value" result
IsAssignment(response) ==
    \/ response.type = "SYMBOL_RESULT" /\ response.action = "assigned"
    \/ response.type = "MATH_RESULT" /\ Contains(response.expression, Equals)

\* the response carries a number as its result or as its value
CarriesNumber(response) ==
    \/ "result" \in DOMAIN response
    \/ "value" \in DOMAIN response /\ response.value.kind = "num"

NumberCarried(response) ==
    IF "result" \in DOMAIN response THEN response.result ELSE response.value.v

AssignedNames(s) == {name \in DOMAIN s.symbols_env : s.symbols_env[name].kind = "num"}

\* this step is a symbol assignment "n = expr" that succeeded
AssignmentTurn ==
    /\ TextTurn
    /\ turn'.returned.type = "SYMBOL_RESULT"
    /\ turn'.returned.action = "assigned"

XPlus3 == <<"x", " ", "+", " ", "3">>

(***************************************************************************)
(* C14: a successful symbol assignment n = expr stores the evaluated value *)
(* under n in both symbols_env and math_env; from then on the two agree,   *)
(* the bare input n is answered by the environment lookup with MATH_RESULT *)
(* and that value, and an expression using n evaluates with it (x + 3      *)
(* gives the value of x plus 3).                                           *)
(***************************************************************************)
\* the value n = expr assigns: expr in the numeric environment of the session
AssignedValue(text, s) ==
    evaluate(Strip(SplitOnce(text, Equals)[2]), _numeric_env(s))

NameErrorText == "Invalid expression: NameError: name is not defined"

\* the text is an expression (it has an operator and is not an assignment)
\* whose evaluation in the session's numeric environment fails on a name
\* without a numeric value
FailsOnUnboundName(text, s) ==
    /\ HasOperator(text)
    /\ ~Contains(text, Equals)
    /\ evaluate(text, _numeric_env(s)) = Err(NameErrorText)

(***************************************************************************)
(* C15: an expression whose evaluation fails on a name without a numeric   *)
(* value, and which is not taken as a quiz answer, is never answered with  *)
(* an ERROR response: the answer is the TEXT coaching response naming the  *)
(* first undefined identifier.                                             *)
(***************************************************************************)
C15_UnboundNameIsCoached ==
    [][(/\ TextTurn
        /\ ~(QuizActive /\ AnswerShaped(turn'.input))
        /\ FailsOnUnboundName(turn'.input, session)) =>
          /\ turn'.returned.type = "TEXT"
          /\ "coaching" \in DOMAIN turn'.returned
          /\ turn'.returned.symbol =
                Join(_undefined_identifiers(turn'.input, session)[1])]_vars

\* this step hands the conversation to a fresh engine through a snapshot
RestoreTurn == turn'.op = "restore_session_state"

Whole(path) == files[path].kind \in {"absent", "complete"}

(***************************************************************************)
(* C17: saving is atomic.  At every point of a save, a crash or an I/O     *)
(* error between its steps included, the file at the snapshot path (and    *)
(* likewise the profile file) is never a partial write: each step leaves   *)
(* it as it was or makes it the complete new document.  A snapshot save    *)
(* that fails with an I/O error returns False and leaves the snapshot that *)
(* was there when the save began.                                          *)
(***************************************************************************)
C17_AtomicSave ==
    /\ [](Whole(SESSION_STATE_PATH) /\ Whole(PROFILE_PATH))
    /\ [][\A which \in {"session", "profile"} :
            \/ files'[target_path(which)] = files[target_path(which)]
            \/ /\ save.which = which
               /\ files'[target_path(which)] = Complete(save.payload)]_vars
    /\ [](Saving => files[target_path(save.which)] = save.before)
    /\ [][SaveOSError =>
            IF save.which = "session"
              THEN save'.result = "False"
                     /\ files'[SESSION_STATE_PATH] = save.before
              ELSE files'[PROFILE_PATH] = save.before]_vars

\* a second snapshot save failed after its temporary file was opened: False
\* was returned, the temporary file is partial and the snapshot path still
\* holds the complete first snapshot, which differs from the one being saved
C17_Witness ==
    /\ save.pc = "idle"
    /\ save.which = "session"
    /\ save.result = "False"
    /\ files[temp_path("session")] = Partial
    /\ files[SESSION_STATE_PATH].kind = "complete"
    /\ files[SESSION_STATE_PATH] # Complete(save.payload)

\* the text holds the word, in any letter case, with no letter, digit or
\* underscore next to it
HasWholeWord(text, word) ==
    \E i \in 1..(Len(text) - Len(word) + 1) :
        /\ Lower(Slice(text, i, i + Len(word) - 1)) = word
        /\ (i = 1 \/ text[i - 1] \notin WordClass)
        /\ (i + Len(word) > Len(text) \/ text[i + Len(word)] \notin WordClass)

Dunder == <<"_", "_">>

\* the tokens the claim lists
LISTED_TOKENS ==
    {<<"i", "m", "p", "o", "r", "t">>,
     <<"e", "x", "e", "c">>,
     <<"e", "v", "a", "l">>,
     <<"c", "o", "m", "p", "i", "l", "e">>,
     <<"o", "p", "e", "n">>,
     <<"i", "n", "p", "u", "t">>,
     <<"g", "l", "o", "b", "a", "l", "s">>,
     <<"l", "o", "c", "a", "l", "s">>,
     <<"v", "a", "r", "s">>,
     <<"d", "i", "r">>,
     <<"g", "e", "t", "a", "t", "t", "r">>,
     <<"s", "e", "t", "a", "t", "t", "r">>,
     <<"d", "e", "l", "a", "t", "t", "r">>,
     <<"h", "a", "s", "a", "t", "t", "r">>}

RawInput == <<"r", "a", "w", "_", "i", "n", "p", "u", "t">>

\* the expression holds __ or one of the tokens as a whole word
Denylisted(text, tokens) ==
    Contains(text, Dunder) \/ \E token \in tokens : HasWholeWord(text, token)

\* the call was refused with SafeMathError "Unsafe pattern: <pattern>"
RefusedAsUnsafe ==
    evaluator.outcome.error \in
        {"Unsafe pattern: " \o Join(token) :
            token \in LISTED_TOKENS \cup {Dunder, RawInput}}

\* the call neither built nor ran an interpreter, and none is cached for it
NoInterpreter ==
    /\ ~evaluator.created
    /\ ~evaluator.ran
    /\ _build_cache_key(evaluator.expression, EVALUATOR_VARIABLES)
          \notin DOMAIN evaluator._monty_cache

(***************************************************************************)
(* C18: every expression that holds __ anywhere, or a listed token as a    *)
(* whole word in any letter case, is refused with "Unsafe pattern" and no  *)
(* interpreter is created or run; an expression that holds neither is not  *)
(* refused by this check.                                                  *)
(***************************************************************************)
C18_UnsafePatternAlways ==
    evaluator.evaluated =>
        /\ Denylisted(evaluator.expression, LISTED_TOKENS) =>
              RefusedAsUnsafe /\ NoInterpreter
        /\ ~Denylisted(evaluator.expression, LISTED_TOKENS) => ~RefusedAsUnsafe

(***************************************************************************)
(* C18, amended: every expression of at most 1000 characters that holds __ *)
(* anywhere, or a listed token or raw_input as a whole word in any letter  *)
(* case, is refused with "Unsafe pattern" and no interpreter is created or *)
(* run; a longer expression is refused as "Expression too long", also      *)
(* without an interpreter; an expression that holds none of them is not    *)
(* refused by this check.                                                  *)
(***************************************************************************)
C18_UnsafePatternWithinLength ==
    evaluator.evaluated =>
        /\ (/\ Len(evaluator.expression) <= MAX_STRING_LENGTH
            /\ Denylisted(evaluator.expression, LISTED_TOKENS \cup {RawInput})) =>
              RefusedAsUnsafe /\ NoInterpreter
        /\ Len(evaluator.expression) > MAX_STRING_LENGTH =>
              evaluator.outcome = Err("Expression too long") /\ NoInterpreter
        /\ ~Denylisted(evaluator.expression, LISTED_TOKENS \cup {RawInput}) =>
              ~RefusedAsUnsafe

\* an evaluator that already holds interpreters refused IMPORT os
C18_Witness ==
    /\ evaluator.evaluated
    /\ evaluator.expression = <<"I", "M", "P", "O", "R", "T", " ", "o", "s">>
    /\ evaluator.outcome = Err("Unsafe pattern: import")
    /\ DOMAIN evaluator._monty_cache # {}

\* the keywords the claim lists
LISTED_KEYWORDS ==
    {<<"f", "o", "r">>, <<"w", "h", "i", "l", "e">>, <<"d", "e", "f">>, <<"c", "l", "a", "s", "s">>, <<"l", "a", "m", "b", "d", "a">>, <<"i", "f">>}

HasKeyword(text) == \E keyword \in LISTED_KEYWORDS : HasWholeWord(text, keyword)

RefusedAsControlFlow ==
    evaluator.outcome = Err("Complex control flow not allowed")

(***************************************************************************)
(* C19: every expression that holds for, while, def, class, lambda or if   *)
(* as a whole word, in any letter case, is refused with "Complex control   *)
(* flow not allowed" before any interpreter work.                          *)
(***************************************************************************)
C19_ControlFlowAlways ==
    (evaluator.evaluated /\ HasKeyword(evaluator.expression)) =>
        RefusedAsControlFlow /\ NoInterpreter

(***************************************************************************)
(* C19, amended: every expression of at most 1000 characters that holds no *)
(* unsafe pattern and holds for, while, def, class, lambda or if as a      *)
(* whole word, in any letter case, is refused with "Complex control flow   *)
(* not allowed" before any interpreter work; with an unsafe pattern or a   *)
(* greater length it is refused by the earlier check, also before any      *)
(* interpreter work.                                                       *)
(***************************************************************************)
C19_ControlFlowAfterEarlierChecks ==
    (evaluator.evaluated /\ HasKeyword(evaluator.expression)) =>
        /\ NoInterpreter
        /\ IF Len(evaluator.expression) > MAX_STRING_LENGTH
             THEN evaluator.outcome = Err("Expression too long")
           ELSE IF Denylisted(evaluator.expression, LISTED_TOKENS \cup {RawInput})
             THEN RefusedAsUnsafe
           ELSE RefusedAsControlFlow

\* an evaluator that already holds interpreters refused the upper-case IF
C19_Witness ==
    /\ evaluator.evaluated
    /\ evaluator.expression = <<"I", "F">>
    /\ RefusedAsControlFlow
    /\ DOMAIN evaluator._monty_cache # {}

\* the expression reads n ** e, n a number and e an integer
PowerForm(text) ==
    \E i \in 1..(Len(text) - 1) :
        /\ text[i] = "*" /\ text[i + 1] = "*"
        /\ IsDigit(Strip(Slice(text, 1, i - 1)))
        /\ IntParses(Strip(Slice(text, i + 2, Len(text))))

ExponentOf(text) ==
    LET i == CHOOSE i \in 1..(Len(text) - 1) : text[i] = "*" /\ text[i + 1] = "*"
    IN  IntOf(Strip(Slice(text, i + 2, Len(text))))

RefusedAsExponent == evaluator.outcome = Err("Exponent too large")

(***************************************************************************)
(* C20: every expression n ** e with an integer e beyond 100 in magnitude  *)
(* is refused with "Exponent too large" before an interpreter is created   *)
(* or run; with an exponent of magnitude at most 100 it passes this check. *)
(***************************************************************************)
C20_ExponentAlways ==
    (evaluator.evaluated /\ PowerForm(evaluator.expression)) =>
        IF Abs(ExponentOf(evaluator.expression)) > 100
          THEN RefusedAsExponent /\ NoInterpreter
          ELSE ~RefusedAsExponent

(***************************************************************************)
(* C20, amended: every expression n ** e of at most 1000 characters with   *)
(* an integer e beyond 100 in magnitude is refused with "Exponent too      *)
(* large" before an interpreter is created or run; a longer one is refused *)
(* as "Expression too long", also before any interpreter; with an exponent *)
(* of magnitude at most 100 the expression passes this check and reaches   *)
(* the interpreter.                                                        *)
(***************************************************************************)
C20_ExponentWithinLength ==
    (evaluator.evaluated /\ PowerForm(evaluator.expression)) =>
        IF Len(evaluator.expression) > MAX_STRING_LENGTH
          THEN evaluator.outcome = Err("Expression too long") /\ NoInterpreter
        ELSE IF Abs(ExponentOf(evaluator.expression)) > 100
          THEN RefusedAsExponent /\ NoInterpreter
          ELSE ~RefusedAsExponent /\ evaluator.ran

\* 2 ** 101 was refused by an evaluator that had let 1 ** 100 through to an
\* interpreter before
C20_Witness ==
    /\ evaluator.evaluated
    /\ evaluator.expression = <<"2", " ", "*", "*", " ", "1", "0", "1">>
    /\ RefusedAsExponent
    /\ _build_cache_key(<<"1", " ", "*", "*", " ", "1", "0", "0">>, EVALUATOR_VARIABLES) \in DOMAIN evaluator._monty_cache

(***************************************************************************)
(* C21: the size of what evaluate returns.                                 *)
(***************************************************************************)
\* what the interpreter gave for the expression of the last call
InterpreterResult == MontyRun(evaluator.expression, evaluator.variables)

\* the limbs of 10^30: ten zero limbs below a limb of 1
TenToThe30Limbs == [i \in 1..10 |-> 0] \o <<1>>

\* an int of magnitude above 10^30
BeyondTenToThe30(value) ==
    /\ value.type = "long"
    /\ \/ Len(value.items) > Len(TenToThe30Limbs)
       \/ Len(value.items) = Len(TenToThe30Limbs) /\ value.items # TenToThe30Limbs

\* the last call returned this value of the interpreter
ReturnedValue(value) ==
    IF value.type = "str" THEN evaluator.outcome = OkStr(value.items)
    ELSE IF value.type = "long"
      THEN evaluator.outcome = OkLong(value.n, value.items)
    ELSE evaluator.outcome = Ok(value.n)

AcceptedCall ==
    /\ evaluator'.variables = evaluator.variables
    /\ evaluator'.evaluated
    /\ evaluator'.ran

\* the call of this step has the expression and the variable values of the
\* call before it, which was accepted
RepeatedCall ==
    /\ evaluator.evaluated
    /\ evaluator.ran
    /\ evaluator'.expression = evaluator.expression
    /\ evaluator'.inputs = evaluator.inputs

\* C22: a call with an accepted expression returns what the expression gives
\* under the values the variables have at the call, whatever the calls and
\* the values before it, and leaves its interpreter in the cache, which
\* loses none; a call whose expression and values already have an
\* interpreter there adds none, and a call that repeats the call before it
\* returns the same result.
C22_CachedCallsAgree ==
    [][AcceptedCall =>
        /\ evaluator'.inputs = evaluator.variables
        /\ evaluator'.outcome
             = Validated(MontyRun(evaluator'.expression, evaluator.variables))
        /\ DOMAIN evaluator._monty_cache \subseteq DOMAIN evaluator'._monty_cache
        /\ <<evaluator'.expression, evaluator'.inputs>>
             \in DOMAIN evaluator'._monty_cache
        /\ <<evaluator'.expression, evaluator'.inputs>>
             \in DOMAIN evaluator._monty_cache
             => /\ evaluator'._monty_cache = evaluator._monty_cache
                /\ ~evaluator'.created
        /\ RepeatedCall
             => /\ evaluator'.outcome = evaluator.outcome
                /\ evaluator'._monty_cache = evaluator._monty_cache]_vars

\* x + 5 was evaluated with x = 10, a value x did not start with, by an
\* interpreter taken from the cache, next to the one built when x was 7
C22_Witness ==
    /\ evaluator.evaluated
    /\ evaluator.ran
    /\ ~evaluator.created
    /\ evaluator.expression = <<"x", " ", "+", " ", "5">>
    /\ evaluator.inputs["x"] = 10
    /\ evaluator.outcome = Ok(15)
    /\ <<evaluator.expression, EVALUATOR_VARIABLES>> \in DOMAIN evaluator._monty_cache

(***************************************************************************)
(* C23: the failures of evaluate.                                          *)
(***************************************************************************)
\* the failures with a fixed message
FIXED_FAILURES ==
    {"Empty expression", "Expression too long", "String too long",
     "Complex control flow not allowed", "Exponent too large",
     "Division by zero", "Execution timeout", "Memory limit exceeded"}

\* the messages with which the interpreter refuses an expression
InterpreterWordings ==
    {"syntax", "NameError: name is not defined",
     "TypeError: unsupported operand type(s)"}
        \cup {Join(interruption.message) : interruption \in INTERRUPTIONS}

\* the failure is of one of the kinds: empty, too long, unsafe pattern,
\* control flow, exponent too large, division by zero, timeout, memory
\* limit, invalid expression, number too large
ListedFailure(error) ==
    \/ error \in FIXED_FAILURES
    \/ \E token \in LISTED_TOKENS \cup {Dunder} :
            error = "Unsafe pattern: " \o Join(token)
    \/ \E wording \in InterpreterWordings :
            error = "Invalid expression: " \o wording
    \/ /\ InterpreterResult.kind = "ok"
       /\ InterpreterResult.value.type # "str"
       /\ error = "Number too large: " \o Join(StrOfValue(InterpreterResult.value))

\* the message of the error the interpreter raised in the last call says
\* `wording`, in letters of either case
Worded(wording) == Contains(Lower(evaluator.raised.message), Lower(wording))

\* the interpreter raised an error of its own in the last call
MontyErrorRaised ==
    evaluator.raised.exception \in {"MontySyntaxError", "MontyRuntimeError"}

EmptyInputWithoutQuiz ==
    /\ session.current_quiz = None
    /\ turn'.op = "process_input"
    /\ turn'.input = <<>>
    /\ inputs_seen' = inputs_seen + 1

\* C25: on a session with no active quiz, empty input makes a quiz active:
\* the response is of type QUIZ, its content is the quiz generated in the
\* turn, which carries an id no quiz before it had, and current_quiz is
\* that quiz after the turn.
C25_EmptyInputStartsQuiz ==
    [][EmptyInputWithoutQuiz =>
        /\ turn'.returned.type = "QUIZ"
        /\ session'.current_quiz # None
        /\ turn'.returned.quiz = session'.current_quiz
        /\ session'.current_quiz.id = quiz_counter'
        /\ quiz_counter' > quiz_counter
        /\ \E item \in QuizPool :
              /\ session'.current_quiz.question = item.question
              /\ session'.current_quiz.answer = item.answer]_vars

\* the first input of a fresh session was empty and its quiz, the first
\* generated, is the current one
C25_Witness ==
    /\ inputs_seen = 1
    /\ turn.op = "process_input"
    /\ turn.input = <<>>
    /\ turn.returned.type = "QUIZ"
    /\ session.current_quiz # None
    /\ session.current_quiz.id = 1
    /\ turn.returned.quiz = session.current_quiz

(***************************************************************************)
(* C26: how a submitted answer is judged.                                  *)
(***************************************************************************)
\* the string form of the answer of the active quiz
StoredAnswer == StrOfInt(session.current_quiz.answer)

\* this step is a process_input, with a quiz active, of a text the quiz
\* handler takes: a number, bare or after answer: or ans:
AnswerSubmitted ==
    /\ session.current_quiz # None
    /\ turn'.op = "process_input"
    /\ inputs_seen' = inputs_seen + 1
    /\ turn'.input # <<>>
    /\ \/ ANSWER_PATTERN(turn'.input)
       \/ StartsWith(turn'.input, AnswerPrefix)
       \/ StartsWith(turn'.input, AnsPrefix)

\* the attempts counted for the quiz that was active before the step
AttemptsBefore == Get(session.quiz_attempts, session.current_quiz.id, 0)

AttemptsAfter == Get(session'.quiz_attempts, session.current_quiz.id, 0)

\* the texts that write the number 5 otherwise than the string form of 5
WRITTEN_OTHERWISE == {<<"+", "5">>, <<"5", ".", "0">>, <<"0", "5">>}

\* C26: a submitted answer is judged correct exactly when its text, after
\* removing an answer:/ans: prefix and the spaces around it, is equal as a
\* string to the string form of the stored answer; +5, 5.0 and 05 for a
\* stored answer 5 are taken by the quiz handler, judged wrong and counted
\* as a wrong attempt on the quiz, which stays active.
C26_AnswerJudgedAsText ==
    [][AnswerSubmitted =>
        /\ turn'.handled # None
        /\ turn'.handled.type = "QUIZ"
        /\ turn'.handled.quiz = session.current_quiz
        /\ turn'.handled.correct = (ExtractAnswer(turn'.input) = StoredAnswer)
        /\ AttemptsAfter = AttemptsBefore + 1
        /\ ~turn'.handled.correct
              => /\ session'.current_quiz = session.current_quiz
                 /\ session'.problems_solved = session.problems_solved
                 /\ session'.current_streak = 0
        /\ turn'.input \in WRITTEN_OTHERWISE /\ session.current_quiz.answer = 5
              => ~turn'.handled.correct]_vars

\* 5.0 was answered to the quiz whose stored answer is 5, was judged wrong
\* and counted, and the quiz is still active
C26_Witness ==
    /\ turn.op = "process_input"
    /\ turn.input = <<"5", ".", "0">>
    /\ turn.handled # None
    /\ turn.handled.type = "QUIZ"
    /\ ~turn.handled.correct
    /\ session.current_quiz = turn.handled.quiz
    /\ session.current_quiz.answer = 5
    /\ Get(session.quiz_attempts, session.current_quiz.id, 0) >= 1

(***************************************************************************)
(* C27: the execution limit of SecureExecutor.                             *)
(***************************************************************************)
\* this step is an execute call
ExecuteCalled == executor'.op = "execute" /\ executor' # executor

\* the errors of the static checks of execute
STATIC_ERRORS ==
    {"Empty code not allowed", "Code too long", "Complex control flow not allowed"}
        \cup {"Unsafe pattern: " \o Join(token) : token \in LISTED_TOKENS \cup {Dunder}}

\* C27: with MAX_EXECUTIONS = N, a call that passes the static checks runs
\* when fewer than N calls ran since the executor was made or last reset,
\* and otherwise raises 'Execution limit exceeded' without running code or
\* compiling it; a call the static checks reject (empty, too long, unsafe
\* pattern, control flow) raises their error and takes nothing from the
\* quota; after reset_limits no run is counted, so that N calls run again.
C27_ExecutionLimit ==
    [][/\ ExecuteCalled =>
            IF StaticCheck(executor'.code).kind = "error"
              THEN /\ ~executor'.ran
                   /\ executor'.outcome.kind = "error"
                   /\ executor'.outcome.error \in STATIC_ERRORS
                   /\ executor'.runs = executor.runs
                   /\ executor'.execution_count = executor.execution_count
            ELSE IF executor.runs < MAX_EXECUTIONS
              THEN /\ executor'.ran
                   /\ executor'.runs = executor.runs + 1
                   /\ executor'.outcome.kind = "error"
                        => executor'.outcome.error # "Execution limit exceeded"
            ELSE /\ ~executor'.ran
                 /\ executor'.outcome = Err("Execution limit exceeded")
                 /\ executor'.runs = executor.runs
                 /\ executor'._monty_cache = executor._monty_cache
       /\ executor'.op = "reset_limits"
            => executor'.execution_count = 0 /\ executor'.runs = 0]_vars

\* a call was refused for the limit, the limits were reset and since then N
\* calls ran, the last one 1 + 1
C27_Witness ==
    /\ executor.exhausted
    /\ executor.op = "execute"
    /\ executor.code = <<"1", " ", "+", " ", "1">>
    /\ executor.ran
    /\ executor.outcome.kind = "ok"
    /\ executor.runs = MAX_EXECUTIONS

(***************************************************************************)
(* C28: a short word is an emoji or a symbol.                              *)
(***************************************************************************)
\* this step is a process_input of one alphabetic word of 3 or 4 letters
\* that is neither a name of the math environment nor a custom-data key
ShortWordEntered ==
    /\ turn'.op = "process_input"
    /\ inputs_seen' = inputs_seen + 1
    /\ Len(turn'.input) \in {3, 4}
    /\ IsAlpha(turn'.input)
    /\ Join(turn'.input) \notin DOMAIN session.math_env
    /\ ~_lookup(CUSTOM_DATA, turn'.input).found

\* the response is the emoji of the word, and no symbol was made
AnsweredWithEmoji ==
    /\ turn'.returned.type = "EMOJI"
    /\ turn'.returned.found
    /\ turn'.returned.word = turn'.input
    /\ session'.symbols_env = session.symbols_env

\* the response is a symbol result for the word
AnsweredWithSymbol(action) ==
    /\ turn'.returned.type = "SYMBOL_RESULT"
    /\ turn'.returned.symbol = Join(turn'.input)
    /\ turn'.returned.action = action

NoSnapshotKept == files[SESSION_STATE_PATH].kind # "complete"

\* C29: load_persisted_session never raises: it returns None when the state
\* file is missing, unreadable, not valid JSON, not a JSON object or cannot
\* be deserialized into a Session, and the frontend then starts from a fresh
\* Session.
C29_LoadNeverRaises ==
    startup.op = "main" /\ ~startup.start_new =>
        /\ startup.loaded # "raised"
        /\ NoSnapshotKept =>
              /\ startup.loaded = "none"
              /\ inputs_seen = 0 => session = NewSession

(***************************************************************************)
(* C30: the order of the pre-checks of evaluate.                           *)
(***************************************************************************)
\* the expression is empty or made of spaces
Blank(text) == \A i \in 1..Len(text) : text[i] = " "

\* the call was refused for a listed token the expression holds, '__' apart
RefusedForToken ==
    \E token \in LISTED_TOKENS \cup {RawInput} :
        /\ HasWholeWord(evaluator.expression, token)
        /\ evaluator.outcome = Err("Unsafe pattern: " \o Join(token))

\* the error messages of the pre-checks with a fixed wording
PRECHECK_ERRORS ==
    {"Empty expression", "Expression too long",
     "Complex control flow not allowed", "Exponent too large"}

\* the call was refused by no pre-check
PassedPrechecks ==
    /\ evaluator.outcome.kind = "error"
          => /\ evaluator.outcome.error \notin PRECHECK_ERRORS
             /\ ~RefusedAsUnsafe
    /\ evaluator.ran \/ evaluator.outcome = Err("Invalid expression: syntax")

\* C30: evaluate applies its pre-checks in the order empty or
\* whitespace-only, length over 1000, '__', denylisted tokens, control-flow
\* keyword, exponent magnitude, and reports the first one violated: an
\* expression violating several is reported by the earliest check, without
\* any interpreter, and an expression violating none goes on to the
\* interpreter.
C30_FirstViolatedReported ==
    evaluator.evaluated =>
        IF Blank(evaluator.expression)
          THEN evaluator.outcome = Err("Empty expression") /\ NoInterpreter
        ELSE IF Len(evaluator.expression) > 1000
          THEN evaluator.outcome = Err("Expression too long") /\ NoInterpreter
        ELSE IF Contains(Lower(evaluator.expression), Dunder)
          THEN evaluator.outcome = Err("Unsafe pattern: __") /\ NoInterpreter
        ELSE IF Denylisted(evaluator.expression, LISTED_TOKENS \cup {RawInput})
          THEN RefusedForToken /\ NoInterpreter
        ELSE IF HasKeyword(evaluator.expression)
          THEN RefusedAsControlFlow /\ NoInterpreter
        ELSE IF PowerForm(evaluator.expression)
                  /\ Abs(ExponentOf(evaluator.expression)) > 100
          THEN RefusedAsExponent /\ NoInterpreter
        ELSE PassedPrechecks

\* an import of more than 1000 characters was refused as too long by an
\* evaluator that holds an interpreter from a call before
C30_Witness ==
    /\ evaluator.evaluated
    /\ evaluator.expression = LongImport
    /\ evaluator.outcome = Err("Expression too long")
    /\ DOMAIN evaluator._monty_cache # {}

(***************************************************************************)
(* C31: the quiz generated after a correct answer has the difficulty set   *)
(* by problems_solved after the increment (1 below 5, 2 for 5 to 14, 3 for *)
(* 15 to 29, 4 from 30 on), and the difficulty of the current quiz never   *)
(* decreases from one generated quiz to the next.                          *)
(***************************************************************************)
LevelAt(solved) ==
    CASE solved \in 0..4 -> 1
      [] solved \in 5..14 -> 2
      [] solved \in 15..29 -> 3
      [] OTHER -> 4

C31_DifficultyFromSolved ==
    [][/\ CorrectAnswerTurn =>
            /\ session'.problems_solved = session.problems_solved + 1
            /\ turn'.handled.next_quiz = session'.current_quiz
            /\ session'.current_quiz.difficulty
                 = LevelAt(session.problems_solved + 1)
       /\ (QuizActive /\ session'.current_quiz # None) =>
            session'.current_quiz.difficulty >= session.current_quiz.difficulty]_vars

\* the last turn solved the quiz that was current at the threshold and the
\* quiz it generated is one level harder
C31_Witness ==
    /\ turn.op = "process_input"
    /\ turn.handled # None
    /\ turn.handled.type = "QUIZ" /\ turn.handled.correct
    /\ session.problems_solved \in {5, 15, 30}
    /\ turn.handled.next_quiz.difficulty = turn.handled.quiz.difficulty + 1
    /\ session.current_quiz = turn.handled.next_quiz

(***************************************************************************)
(* C32: a wrong answer's response carries a clue exactly when the attempt  *)
(* count of that quiz, attempts restored from a snapshot included, has     *)
(* reached 3; on the 1st and 2nd attempt the hint is the plain             *)
(* encouragement.                                                          *)
(***************************************************************************)
PlainEncouragement == "Great attempt! Keep going on this one."

C32_ClueFromThirdAttempt ==
    [][WrongAnswerTurn =>
         LET attempts == AttemptsOf(session, session.current_quiz.id) + 1
         IN  /\ turn'.returned = turn'.handled
             /\ turn'.returned.type = "QUIZ" /\ ~turn'.returned.correct
             /\ turn'.returned.attempts = attempts
             /\ (turn'.returned.clue # NoClue) <=> (attempts >= 3)
             /\ (turn'.returned.hint = PlainEncouragement) <=> (attempts \in {1, 2})]_vars

(***************************************************************************)
(* C33: the clue given from the 3rd wrong attempt states, for a stored     *)
(* answer a, that the answer is between 10*floor(a/10) and                 *)
(* 10*floor(a/10)+10, and the stored answer lies within the stated range.  *)
(***************************************************************************)
\* the clue names the decade of the stored answer
DecadeClue(clue, a) ==
    /\ clue.kind = "between"
    /\ clue.lo = 10 * (a \div 10)
    /\ clue.hi = 10 * (a \div 10) + 10
    /\ clue.lo <= a /\ a <= clue.hi

\* this step is a wrong answer that is the 3rd or a later attempt and is
\* answered with a clue
CluedAnswerTurn ==
    /\ WrongAnswerTurn
    /\ AttemptsOf(session, session.current_quiz.id) >= 2
    /\ "clue" \in DOMAIN turn'.returned

C33_ClueIsDecade ==
    [][CluedAnswerTurn =>
         DecadeClue(turn'.returned.clue, session.current_quiz.answer)]_vars

(***************************************************************************)
(* C33 (amended): for a stored answer a from 10 to 49 the clue given from  *)
(* the 3rd wrong attempt states that the answer is between 10*floor(a/10)  *)
(* and 10*floor(a/10)+10, and a lies within the stated range; for a below  *)
(* 10 the clue is that the answer is less than 10, and for a from 50 on it *)
(* names the first digit of a.                                             *)
(***************************************************************************)
C33_ClueByMagnitude ==
    [][CluedAnswerTurn =>
         LET a == session.current_quiz.answer
             clue == turn'.returned.clue
         IN  /\ (a \in 10..49) => DecadeClue(clue, a)
             /\ (a < 10) => clue.kind = "less_than_10"
             /\ (a >= 50) => /\ clue.kind = "starts_with"
                             /\ clue.digit = StrOfInt(a)[1]]_vars

\* the last turn was a 3rd or later wrong attempt on a quiz whose answer is
\* 49, and the clue says between 40 and 50
C33_Witness ==
    /\ turn.op = "process_input"
    /\ turn.returned.type = "QUIZ" /\ "attempts" \in DOMAIN turn.returned
    /\ turn.returned.attempts >= 3
    /\ turn.returned.quiz.answer = 49
    /\ turn.returned.clue = [kind |-> "between", lo |-> 40, hi |-> 50]

(***************************************************************************)
(* C34: a wrong answer's response carries a number-facts payload exactly   *)
(* when the submitted answer text is a plain digit string denoting an      *)
(* integer from 1 to 10000, on any attempt, and the payload describes the  *)
(* submitted number; otherwise number_facts is None.                       *)
(***************************************************************************)
\* a string of the digits 0 to 9 that denotes an integer from 1 to 10000
PlainNumber(text) ==
    /\ Len(text) > 0
    /\ AllIn(text, AsciiDigits)
    /\ DigitsToNat(text) >= 1
    /\ DigitsToNat(text) <= 10000

HasNumberFacts(response) ==
    "number_facts" \in DOMAIN response /\ response.number_facts # None

\* the payload is the one of `number`: its value and its factor pairs
DescribesNumber(facts, number) ==
    /\ facts.number = number
    /\ facts.factors
         = {<<d, number \div d>> :
              d \in {e \in 1..number : e * e <= number /\ number % e = 0}}

\* what a wrong answer's response must carry for the answer text `answer`
FactsFor(response, plain, number) ==
    /\ HasNumberFacts(response) <=> plain
    /\ HasNumberFacts(response) => DescribesNumber(response.number_facts, number)
    /\ (response.type = "QUIZ" /\ ~plain) => response.number_facts = None

AttemptKeys(s) == DOMAIN s.quiz_attempts

C35_AttemptsOnlyGrow ==
    [][/\ \A id \in AttemptKeys(session) :
            /\ id \in AttemptKeys(session')
            /\ session'.quiz_attempts[id] >= session.quiz_attempts[id]
       /\ AnswerTurn =>
            /\ AttemptsOf(session', session.current_quiz.id)
                 = AttemptsOf(session, session.current_quiz.id) + 1
            /\ \A id \in AttemptKeys(session) \ {session.current_quiz.id} :
                  session'.quiz_attempts[id] = session.quiz_attempts[id]
       /\ ~AnswerTurn => session'.quiz_attempts = session.quiz_attempts
       /\ \A id \in AttemptKeys(session') \ AttemptKeys(session) :
            QuizActive /\ id = session.current_quiz.id
       /\ \A id \in AttemptKeys(session') : id \in 1..quiz_counter]_vars

\* a quiz was answered wrongly and then correctly: it is no longer current
\* and keeps its two attempts
C35_Witness ==
    /\ QuizActive
    /\ \E id \in AttemptKeys(session) :
          /\ id # session.current_quiz.id
          /\ session.quiz_attempts[id] = 2
    /\ turn.op = "process_input"
    /\ turn.handled # None
    /\ turn.handled.type = "QUIZ" /\ "next_quiz" \in DOMAIN turn.handled

(***************************************************************************)
(* C36: SecureExecutor.execute and SafeMathEvaluator.evaluate enforce the  *)
(* same static policy: a text is rejected by the pre-checks of one (empty, *)
(* too long, unsafe pattern, control flow) exactly when it is rejected by  *)
(* the pre-checks of the other.                                            *)
(***************************************************************************)
\* execute refused the code in its static checks
RefusedByExecute ==
    executor.outcome.kind = "error" /\ executor.outcome.error \in STATIC_ERRORS

\* evaluate refuses the text in its checks of emptiness, length, unsafe
\* patterns or control flow
RefusedByEvaluate(text) ==
    /\ Prechecked(text).kind = "error"
    /\ Prechecked(text).error # "Exponent too large"

C36_SameStaticPolicy ==
    executor.op = "execute" =>
        (RefusedByExecute <=> RefusedByEvaluate(executor.code))

(***************************************************************************)
(* C37: problems_solved and current_streak change only in a turn in which  *)
(* the quiz handler judged an answer: problems_solved increases by 1       *)
(* exactly when the current quiz is solved and replaced, and no turn       *)
(* handled by another handler changes either counter.                      *)
(***************************************************************************)
C37_CountersOnlyByQuizHandler ==
    [][/\ ~AnswerTurn =>
            /\ session'.problems_solved = session.problems_solved
            /\ session'.current_streak = session.current_streak
       /\ (session'.problems_solved # session.problems_solved) <=>
            /\ CorrectAnswerTurn
            /\ session'.problems_solved = session.problems_solved + 1
            /\ session'.current_quiz # session.current_quiz]_vars

(***************************************************************************)
(* C38: once a quiz is active, current_quiz is a fully populated quiz      *)
(* record after every later turn; no input returns the session to the      *)
(* no-quiz state.                                                          *)
(***************************************************************************)
QUIZ_FIELDS == {"id", "question", "answer", "difficulty"}

FullyPopulated(quiz) ==
    /\ quiz # None
    /\ QUIZ_FIELDS \subseteq DOMAIN quiz
    /\ quiz.id \in 1..(quiz_counter + 1)
    /\ quiz.difficulty \in 1..4

C38_QuizStaysActive ==
    [][QuizActive => FullyPopulated(session'.current_quiz)]_vars

\* a session that started without a quiz has its second quiz current after a
\* correct answer to the first
C38_Witness ==
    /\ QuizActive
    /\ session.current_quiz.id = 2
    /\ session.problems_solved = 1
    /\ turn.op = "process_input"
    /\ turn.handled # None
    /\ turn.handled.type = "QUIZ" /\ "next_quiz" \in DOMAIN turn.handled
    /\ turn.handled.quiz.id = 1

IsPrime(n) == n > 1 /\ \A d \in 2..(n - 1) : n % d # 0

\* the number-facts payload the response carries, or None
NumberFactsOf(response) ==
    IF response.type = "TREE_DISPLAY" THEN response.content
    ELSE IF HasNumberFacts(response) THEN response.number_facts
    ELSE None

PrimeReported(response, facts, prime) ==
    /\ ("Prime number" \in facts.properties) <=> prime
    /\ response.type = "TREE_DISPLAY" => (response.is_prime <=> prime)

C40_PrimeExactlyWhenPrime ==
    [][TextTurn =>
         \A facts \in {NumberFactsOf(turn'.returned)} \ {None} :
         \A prime \in {IsPrime(facts.number)} :
            PrimeReported(turn'.returned, facts, prime)]_vars

====
